---- MODULE Spec2Model ----
(***************************************************************************)
(* Model of the integration core of mcp-erpnext: the Frappe REST client    *)
(* (src/api/frappe-client.ts), the tool registry and its dispatcher        *)
(* (src/tools/mod.ts, src/client.ts), the handlers of the generic          *)
(* operations tools (src/tools/operations.ts) and of sales tools           *)
(* (src/tools/sales.ts), the chart payloads of three analytics tools       *)
(* (src/tools/analytics.ts), and the remote document store they talk to.   *)
(***************************************************************************)
EXTENDS Integers, Sequences, FiniteSets, TLC

VARIABLES
  toolsOptions, \* the options the ErpNextToolsClient was constructed with
  tools,       \* ErpNextToolsClient.tools, fixed by the constructor
  mcpTools,    \* main's `mcpTools`: the wire-format list, once it is built
  client,      \* the module's singleton `_client`: whether set, and by whom
  timeoutMs,   \* FrappeClient.timeoutMs, fixed by the constructor
  store,       \* the remote system's documents, by document type
  inv,         \* per invocation: tool, input, state, result
  outs,        \* per invocation: outcomes of the client calls awaited so far
  calls,       \* per invocation: client primitive calls made by the handler
  sent,        \* per invocation: HTTP requests handed to fetch()
  rq,          \* per invocation: the request() call in progress
  cause,       \* per invocation: what ended each request() call (observer)
  took,        \* per invocation: how long each request() call took (observer,
               \* kept only where the clock of an invocation is followed)
  chart        \* the analytics handler last run: parameters, records, payload

vars == <<toolsOptions, tools, mcpTools, client, timeoutMs, store, inv, outs, calls, sent, rq, cause, took, chart>>

----------------------------------------------------------------------------
(* Bounds of the model.                                                    *)

\* Number of points the clock visits inside one timeout window.
TicksPerTimeout == 2
\* Edits a concurrent writer may make to one draft document.
MaxModified == 1

\* Invocation slots: one caller at a time, beside the remote's other writers.
Inv == {1}

----------------------------------------------------------------------------
(* JavaScript values: response bodies, documents, handler results.         *)

Undef == [t |-> "undefined"]
Null == [t |-> "null"]
Str(s) == [t |-> "string", s |-> s]
Obj(r) == [t |-> "object", f |-> r]
Arr(s) == [t |-> "array", a |-> s]

IsObj(v) == v.t = "object"
IsArr(v) == v.t = "array"
IsNullish(v) == v.t \in {"undefined", "null"}

\* v[k] for a property the code reads (`res.data`, `res.message`): a JS value.
\* Reading a property of null or undefined throws a TypeError.
HasProp(v, k) == IsObj(v) /\ k \in DOMAIN v.f
Prop(v, k) == IF HasProp(v, k) THEN v.f[k] ELSE Undef

\* { ...doc, doctype }: own properties of doc (none for null or undefined),
\* then the type tag.
WithDoctype(doc, doctype) ==
  LET keys == IF IsObj(doc) THEN DOMAIN doc.f ELSE {}
  IN  Obj([k \in keys \cup {"doctype"} |->
             IF k = "doctype" THEN doctype ELSE doc.f[k]])

\* A number where the code holds one next to other kinds of value.
Num(n) == [t |-> "number", n |-> n]

----------------------------------------------------------------------------
(* Errors.                                                                 *)

\* new FrappeAPIError(message, status, body)
FrappeAPIError(msg, status, body) ==
  [type |-> "FrappeAPIError", status |-> status, body |-> body, msg |-> msg]

\* Errors the runtime raises: they carry neither status nor body.
RuntimeError(type) == [type |-> type]

\* A variant of the error whose message leaves the tool out.
RequiredErrorNoTool(tool, fld) == [type |-> "Error", tool |-> "", field |-> fld]

\* new Error("[tool] 'field' is required")
RequiredError(tool, fld) == [type |-> "Error", tool |-> tool, field |-> fld]

\* new Error("[tool] 'field' must be ..."), new Error("[tool] Each item must
\* have ..."): the tool named, the fields named, the rule stated.
InvalidError(tool, flds, rule) ==
  [type |-> "Error", tool |-> tool, fields |-> flds, rule |-> rule]

\* Outcome of an awaited call.
Returned(v) == [ok |-> TRUE, val |-> v]
Thrown(e) == [ok |-> FALSE, err |-> e]

----------------------------------------------------------------------------
(* HTTP: requests, responses, and FrappeClient.request.                    *)

\* encodeURIComponent on the path segments the tools use.
encodeURIComponent(s) ==
  CASE s = "Sales Order" -> "Sales%20Order"
    [] s = "Sales Invoice" -> "Sales%20Invoice"
    [] OTHER -> s

\* JSON.stringify(body) of an object: properties whose value is undefined are
\* not written; `body !== undefined ? ... : undefined` sends no body at all.
JsonStringify(v) ==
  IF IsObj(v)
    THEN Obj([k \in {x \in DOMAIN v.f : v.f[x] # Undef} |-> v.f[k]])
    ELSE v

\* The argument of fetch(): method, path under baseUrl, serialized body.
HttpRequest(method, path, body) ==
  [method |-> method, path |-> path, body |-> JsonStringify(body)]

\* A response as it travels: status line, content type, bytes of the body.
\* The bytes are either the JSON text of a value or text that is not JSON.
JsonWire(v) == [kind |-> "json", val |-> v]
TextWire(s) == [kind |-> "text", s |-> s]
Response(status, statusText, ctype, wire) ==
  [status |-> status, statusText |-> statusText, ctype |-> ctype, wire |-> wire]

\* response.ok
ResponseOk(resp) == resp.status >= 200 /\ resp.status <= 299

\* await response.json(): the parsed value, or a SyntaxError.
ResponseJson(resp) ==
  IF resp.wire.kind = "json"
    THEN Returned(resp.wire.val)
    ELSE Thrown(RuntimeError("SyntaxError"))

\* await response.text(). Only text bodies are sent with a text content type.
ResponseText(resp) == Returned(Str(resp.wire.s))

\* request(), after fetch resolved: read the body by content type.
ReadBody(resp) ==
  IF resp.ctype = "application/json" THEN ResponseJson(resp) ELSE ResponseText(resp)

\* a ?? b
Coalesce(a, b) == IF IsNullish(a) THEN b ELSE a

\* The summary put in the error message: message ?? exc_type ?? statusText.
ErrorSummary(resp, body) ==
  IF IsObj(body)
    THEN Coalesce(Prop(body, "message"),
                  Coalesce(Prop(body, "exc_type"), Str(resp.statusText)))
    ELSE Str(resp.statusText)

\* request(), after the body was read: throw on a non-success status.
CheckStatus(resp, body) ==
  IF ~ResponseOk(resp)
    THEN Thrown(FrappeAPIError(ErrorSummary(resp, body), resp.status, body))
    ELSE Returned(body)

\* request(), from the resolved fetch to its return or throw.
RequestAfterFetch(resp) ==
  LET b == ReadBody(resp) IN IF b.ok THEN CheckStatus(resp, b.val) ELSE b

\* request(), the catch around fetch: AbortError -> 408, anything else -> 0.
RequestCatch(errName) ==
  IF errName = "AbortError"
    THEN Thrown(FrappeAPIError(Str("Request timed out"), 408, Null))
    ELSE Thrown(FrappeAPIError(Str("Network error"), 0, Null))

\* `res.data` / `res.message` on what request() returned.
ReadResult(out, key) ==
  IF ~out.ok THEN out
  ELSE IF IsNullish(out.val) THEN Thrown(RuntimeError("TypeError"))
  ELSE Returned(Prop(out.val, key))

\* FrappeClient.get / FrappeClient.callMethod: the request each one makes...
GetRequest(doctype, name) ==
  HttpRequest("GET",
    <<"api", "resource", encodeURIComponent(doctype), encodeURIComponent(name)>>,
    Undef)
CallMethodRequest(method, args) ==
  HttpRequest("POST", <<"api", "method", method>>, args)

\* FrappeClient.list: the URLSearchParams, in the order they are set. The
\* array parameters travel as their JSON text, the limit as its digits;
\* limit_start is not given by any handler modelled here.
JsonText(s) == [t |-> "json", a |-> s]
Param(k, v) == [key |-> k, val |-> v]
ListParams(options) ==
  (IF Len(options.fields) > 0
     THEN <<Param("fields", JsonText(options.fields))>> ELSE <<>>)
  \o (IF Len(options.filters) > 0
        THEN <<Param("filters", JsonText(options.filters))>> ELSE <<>>)
  \o (IF options.order_by # ""
        THEN <<Param("order_by", Str(options.order_by))>> ELSE <<>>)
  \o <<Param("limit", Num(options.limit)), Param("as_dict", Str("1"))>>
ListRequest(doctype, options) ==
  HttpRequest("GET", <<"api", "resource", encodeURIComponent(doctype)>>, Undef)
    @@ [query |-> ListParams(options)]

\* A variant of update that sends the fields under a `doc` key.
UpdateRequestDoc(doctype, name, data) ==
  HttpRequest("PUT",
    <<"api", "resource", encodeURIComponent(doctype), encodeURIComponent(name)>>,
    Obj([doc |-> data]))

\* FrappeClient.create / update / delete
CreateRequest(doctype, data) ==
  HttpRequest("POST", <<"api", "resource", encodeURIComponent(doctype)>>,
              Obj([data |-> WithDoctype(data, doctype)]))
UpdateRequest(doctype, name, data) ==
  HttpRequest("PUT",
    <<"api", "resource", encodeURIComponent(doctype), encodeURIComponent(name)>>,
    Obj([data |-> data]))
DeleteRequest(doctype, name) ==
  HttpRequest("DELETE",
    <<"api", "resource", encodeURIComponent(doctype), encodeURIComponent(name)>>,
    Undef)

\* ...and what each one returns from the outcome of request().
GetResult(out) == ReadResult(out, "data")
CallMethodResult(out) == ReadResult(out, "message")
CreateResult(out) == ReadResult(out, "data")
UpdateResult(out) == ReadResult(out, "data")
\* list: res.data ?? []
ListResult(out) ==
  LET d == ReadResult(out, "data")
  IN  IF d.ok THEN Returned(Coalesce(d.val, Arr(<<>>))) ELSE d
\* delete awaits request() and returns nothing
DeleteResult(out) == IF out.ok THEN Returned(Undef) ELSE out

\* new FrappeClient(config): timeoutMs = config.timeoutMs ?? 30_000
DefaultTimeoutMs == 30000
ClientTimeout(config) ==
  IF config.hasTimeout THEN config.timeoutMs ELSE DefaultTimeoutMs

----------------------------------------------------------------------------
(* Tool handlers. A handler is an async function: given the outcomes of    *)
(* the client calls it has awaited so far, it makes its next client call,  *)
(* returns, or throws.                                                     *)

CallGet(doctype, name) ==
  [kind |-> "call", prim |-> "get", doctype |-> doctype, name |-> name]
CallCallMethod(method, args) ==
  [kind |-> "call", prim |-> "callMethod", method |-> method, args |-> args]
CallList(doctype, options) ==
  [kind |-> "call", prim |-> "list", doctype |-> doctype, options |-> options]
CallCreate(doctype, data) ==
  [kind |-> "call", prim |-> "create", doctype |-> doctype, data |-> data]
CallUpdate(doctype, name, data) ==
  [kind |-> "call", prim |-> "update", doctype |-> doctype, name |-> name,
   data |-> data]
CallDelete(doctype, name) ==
  [kind |-> "call", prim |-> "delete", doctype |-> doctype, name |-> name]
Return(v) == [kind |-> "return", val |-> v]
Throw(e) == [kind |-> "throw", err |-> e]

SubmittedMessage(doctype, name) == <<doctype, name, "submitted successfully">>

\* Variants of erpnext_doc_submit with a plausible defect each.
\* Submits {doctype, name} without fetching the record first.
DocSubmitNoFetch(input, o) ==
  IF input.doctype = "" THEN Throw(RequiredError("erpnext_doc_submit", "doctype"))
  ELSE IF input.name = "" THEN Throw(RequiredError("erpnext_doc_submit", "name"))
  ELSE IF Len(o) = 0 THEN
    CallCallMethod("frappe.client.submit",
                   Obj([doc |-> Obj([doctype |-> input.doctype, name |-> input.name])]))
  ELSE IF ~o[1].ok THEN Throw(o[1].err)
  ELSE Return(Obj([data |-> o[1].val,
                   message |-> SubmittedMessage(input.doctype, input.name),
                   doctype |-> input.doctype,
                   name |-> input.name]))

\* Replaces a failed submit's error by an error of its own.
DocSubmitWrapError(input, o) ==
  IF input.doctype = "" THEN Throw(RequiredError("erpnext_doc_submit", "doctype"))
  ELSE IF input.name = "" THEN Throw(RequiredError("erpnext_doc_submit", "name"))
  ELSE IF Len(o) = 0 THEN CallGet(input.doctype, input.name)
  ELSE IF ~o[1].ok THEN Throw(o[1].err)
  ELSE IF Len(o) = 1 THEN
    CallCallMethod("frappe.client.submit",
                   Obj([doc |-> WithDoctype(o[1].val, input.doctype)]))
  ELSE IF ~o[2].ok THEN Throw(RequiredError("erpnext_doc_submit", "submit failed"))
  ELSE Return(Obj([data |-> o[2].val,
                   message |-> SubmittedMessage(input.doctype, input.name),
                   doctype |-> input.doctype,
                   name |-> input.name]))

\* Calls the submit procedure again when it failed.
DocSubmitRetry(input, o) ==
  IF input.doctype = "" THEN Throw(RequiredError("erpnext_doc_submit", "doctype"))
  ELSE IF input.name = "" THEN Throw(RequiredError("erpnext_doc_submit", "name"))
  ELSE IF Len(o) = 0 THEN CallGet(input.doctype, input.name)
  ELSE IF ~o[1].ok THEN Throw(o[1].err)
  ELSE IF Len(o) = 1 \/ (Len(o) = 2 /\ ~o[2].ok) THEN
    CallCallMethod("frappe.client.submit",
                   Obj([doc |-> WithDoctype(o[1].val, input.doctype)]))
  ELSE IF ~o[Len(o)].ok THEN Throw(o[Len(o)].err)
  ELSE Return(Obj([data |-> o[Len(o)].val,
                   message |-> SubmittedMessage(input.doctype, input.name),
                   doctype |-> input.doctype,
                   name |-> input.name]))

\* Submits {doctype, name} when the record could not be fetched.
DocSubmitUnfetched(input, o) ==
  IF input.doctype = "" THEN Throw(RequiredError("erpnext_doc_submit", "doctype"))
  ELSE IF input.name = "" THEN Throw(RequiredError("erpnext_doc_submit", "name"))
  ELSE IF Len(o) = 0 THEN CallGet(input.doctype, input.name)
  ELSE IF Len(o) = 1 THEN
    CallCallMethod("frappe.client.submit",
                   Obj([doc |-> IF o[1].ok THEN WithDoctype(o[1].val, input.doctype)
                                ELSE Obj([doctype |-> input.doctype,
                                          name |-> input.name])]))
  ELSE IF ~o[2].ok THEN Throw(o[2].err)
  ELSE Return(Obj([data |-> o[2].val,
                   message |-> SubmittedMessage(input.doctype, input.name),
                   doctype |-> input.doctype,
                   name |-> input.name]))

\* Reports success when the submit call failed.
DocSubmitSwallow(input, o) ==
  IF input.doctype = "" THEN Throw(RequiredError("erpnext_doc_submit", "doctype"))
  ELSE IF input.name = "" THEN Throw(RequiredError("erpnext_doc_submit", "name"))
  ELSE IF Len(o) = 0 THEN CallGet(input.doctype, input.name)
  ELSE IF ~o[1].ok THEN Throw(o[1].err)
  ELSE IF Len(o) = 1 THEN
    CallCallMethod("frappe.client.submit",
                   Obj([doc |-> WithDoctype(o[1].val, input.doctype)]))
  ELSE Return(Obj([data |-> IF o[2].ok THEN o[2].val ELSE Null,
                   message |-> SubmittedMessage(input.doctype, input.name),
                   doctype |-> input.doctype,
                   name |-> input.name]))

\* erpnext_doc_submit (operations.ts)
DocSubmitHandler(input, o) ==
  IF input.doctype = "" THEN Throw(RequiredError("erpnext_doc_submit", "doctype"))
  ELSE IF input.name = "" THEN Throw(RequiredError("erpnext_doc_submit", "name"))
  ELSE IF Len(o) = 0 THEN CallGet(input.doctype, input.name)
  ELSE IF ~o[1].ok THEN Throw(o[1].err)
  ELSE IF Len(o) = 1 THEN
    CallCallMethod("frappe.client.submit",
                   Obj([doc |-> WithDoctype(o[1].val, input.doctype)]))
  ELSE IF ~o[2].ok THEN Throw(o[2].err)
  ELSE Return(Obj([data |-> o[2].val,
                   message |-> SubmittedMessage(input.doctype, input.name),
                   doctype |-> input.doctype,
                   name |-> input.name]))

\* erpnext_sales_order_submit (sales.ts)
SalesOrderSubmitHandler(input, o) ==
  IF input.name = "" THEN Throw(RequiredError("erpnext_sales_order_submit", "name"))
  ELSE IF Len(o) = 0 THEN CallGet("Sales Order", input.name)
  ELSE IF ~o[1].ok THEN Throw(o[1].err)
  ELSE IF Len(o) = 1 THEN
    CallCallMethod("frappe.client.submit",
                   Obj([doc |-> WithDoctype(o[1].val, "Sales Order")]))
  ELSE IF ~o[2].ok THEN Throw(o[2].err)
  ELSE Return(Obj([data |-> o[2].val,
                   message |-> SubmittedMessage("Sales Order", input.name)]))

\* erpnext_sales_invoice_submit (sales.ts)
SalesInvoiceSubmitHandler(input, o) ==
  IF input.name = "" THEN Throw(RequiredError("erpnext_sales_invoice_submit", "name"))
  ELSE IF Len(o) = 0 THEN CallGet("Sales Invoice", input.name)
  ELSE IF ~o[1].ok THEN Throw(o[1].err)
  ELSE IF Len(o) = 1 THEN
    CallCallMethod("frappe.client.submit",
                   Obj([doc |-> WithDoctype(o[1].val, "Sales Invoice")]))
  ELSE IF ~o[2].ok THEN Throw(o[2].err)
  ELSE Return(Obj([data |-> o[2].val,
                   message |-> SubmittedMessage("Sales Invoice", input.name)]))

SubmitTools ==
  {"erpnext_doc_submit", "erpnext_sales_order_submit", "erpnext_sales_invoice_submit"}

\* typeof v === "object"
TypeofObject(v) == v.t \in {"object", "array", "null"}

\* erpnext_doc_create (operations.ts). `doc.name` in the result message throws
\* a TypeError when the created record came back null or undefined.
DocCreateHandler(input, o) ==
  IF input.doctype = "" THEN Throw(RequiredError("erpnext_doc_create", "doctype"))
  ELSE IF IsNullish(input.data) \/ ~TypeofObject(input.data) THEN
    Throw(InvalidError("erpnext_doc_create", {"data"},
                       "must be an object with document fields"))
  ELSE IF Len(o) = 0 THEN CallCreate(input.doctype, input.data)
  ELSE IF ~o[1].ok THEN Throw(o[1].err)
  ELSE IF IsNullish(o[1].val) THEN Throw(RuntimeError("TypeError"))
  ELSE Return(Obj([data |-> o[1].val,
                   message |-> <<input.doctype, Prop(o[1].val, "name"),
                                 "created successfully">>]))

\* erpnext_doc_update (operations.ts)
DocUpdateHandler(input, o) ==
  IF input.doctype = "" THEN Throw(RequiredError("erpnext_doc_update", "doctype"))
  ELSE IF input.name = "" THEN Throw(RequiredError("erpnext_doc_update", "name"))
  ELSE IF IsNullish(input.data) \/ ~TypeofObject(input.data) THEN
    Throw(InvalidError("erpnext_doc_update", {"data"},
                       "must be an object with fields to update"))
  ELSE IF Len(o) = 0 THEN CallUpdate(input.doctype, input.name, input.data)
  ELSE IF ~o[1].ok THEN Throw(o[1].err)
  ELSE Return(Obj([data |-> o[1].val,
                   message |-> <<input.doctype, input.name, "updated successfully">>]))

\* erpnext_doc_delete (operations.ts)
DocDeleteHandler(input, o) ==
  IF input.doctype = "" THEN Throw(RequiredError("erpnext_doc_delete", "doctype"))
  ELSE IF input.name = "" THEN Throw(RequiredError("erpnext_doc_delete", "name"))
  ELSE IF Len(o) = 0 THEN CallDelete(input.doctype, input.name)
  ELSE IF ~o[1].ok THEN Throw(o[1].err)
  ELSE Return(Obj([message |-> <<input.doctype, input.name, "deleted successfully">>,
                   deleted |-> TRUE,
                   doctype |-> input.doctype,
                   name |-> input.name]))

\* erpnext_doc_cancel (operations.ts)
DocCancelHandler(input, o) ==
  IF input.doctype = "" THEN Throw(RequiredError("erpnext_doc_cancel", "doctype"))
  ELSE IF input.name = "" THEN Throw(RequiredError("erpnext_doc_cancel", "name"))
  ELSE IF Len(o) = 0 THEN
    CallCallMethod("frappe.client.cancel",
                   Obj([doctype |-> Str(input.doctype), name |-> Str(input.name)]))
  ELSE IF ~o[1].ok THEN Throw(o[1].err)
  ELSE Return(Obj([data |-> o[1].val,
                   message |-> <<input.doctype, input.name, "cancelled successfully">>,
                   doctype |-> input.doctype,
                   name |-> input.name]))

\* erpnext_doc_get (operations.ts)
DocGetHandler(input, o) ==
  IF input.doctype = "" THEN Throw(RequiredError("erpnext_doc_get", "doctype"))
  ELSE IF input.name = "" THEN Throw(RequiredError("erpnext_doc_get", "name"))
  ELSE IF Len(o) = 0 THEN CallGet(input.doctype, input.name)
  ELSE IF ~o[1].ok THEN Throw(o[1].err)
  ELSE Return(Obj([data |-> o[1].val]))

\* input.limit ?? 20
DefaultLimit == 20
\* The options erpnext_doc_list passes when the input names the type only:
\* each `??` takes its default.
DefaultListOptions ==
  [fields |-> <<"name", "modified">>, filters |-> <<>>,
   limit |-> DefaultLimit, order_by |-> "modified desc"]

DoclistViewer == [ui |-> [resourceUri |-> "ui://mcp-erpnext/doclist-viewer"]]

\* docs.length
Length(v) == IF IsArr(v) THEN Num(Len(v.a)) ELSE Undef

\* A variant of erpnext_doc_list that answers a failed list with no records.
DocListDefault(input, o) ==
  IF input.doctype = "" THEN Throw(RequiredError("erpnext_doc_list", "doctype"))
  ELSE IF Len(o) = 0 THEN CallList(input.doctype, DefaultListOptions)
  ELSE Return(Obj([doctype |-> input.doctype,
                   count |-> IF o[1].ok THEN Length(o[1].val) ELSE Num(0),
                   data |-> IF o[1].ok THEN o[1].val ELSE Arr(<<>>),
                   _meta |-> DoclistViewer]))

\* erpnext_doc_list (operations.ts)
DocListHandler(input, o) ==
  IF input.doctype = "" THEN Throw(RequiredError("erpnext_doc_list", "doctype"))
  ELSE IF Len(o) = 0 THEN CallList(input.doctype, DefaultListOptions)
  ELSE IF ~o[1].ok THEN Throw(o[1].err)
  ELSE Return(Obj([doctype |-> input.doctype,
                   count |-> Length(o[1].val),
                   data |-> o[1].val,
                   _meta |-> DoclistViewer]))

\* !item.item_code || item.qty == null || item.rate == null
ItemIncomplete(item) ==
  \/ ~HasProp(item, "item_code") \/ Prop(item, "item_code") = ""
  \/ ~HasProp(item, "qty")
  \/ ~HasProp(item, "rate")

\* The line the handler builds from an item: the three fields and the date.
OrderItem(item, delivery_date) ==
  Obj([item_code |-> item.f.item_code, qty |-> item.f.qty, rate |-> item.f.rate,
       delivery_date |-> delivery_date])

\* erpnext_sales_order_create (sales.ts)
SalesOrderCreateHandler(input, o) ==
  IF input.customer = "" THEN
    Throw(RequiredError("erpnext_sales_order_create", "customer"))
  ELSE IF IsNullish(input.items) \/ ~IsArr(input.items) \/ Len(input.items.a) = 0 THEN
    Throw(InvalidError("erpnext_sales_order_create", {"items"},
                       "must be a non-empty array"))
  ELSE IF \E j \in 1..Len(input.items.a) : ItemIncomplete(input.items.a[j]) THEN
    Throw(InvalidError("erpnext_sales_order_create", {"item_code", "qty", "rate"},
                       "each item must have"))
  ELSE IF Len(o) = 0 THEN
    CallCreate("Sales Order",
      Obj([customer |-> input.customer,
           items |-> Arr([j \in 1..Len(input.items.a) |->
                            OrderItem(input.items.a[j], input.delivery_date)]),
           delivery_date |-> input.delivery_date]))
  ELSE IF ~o[1].ok THEN Throw(o[1].err)
  ELSE IF IsNullish(o[1].val) THEN Throw(RuntimeError("TypeError"))
  ELSE Return(Obj([data |-> o[1].val,
                   message |-> <<"Sales Order", Prop(o[1].val, "name"),
                                 "created successfully">>]))

\* tool.handler(input, ctx), by tool name
Handler(tool, input, o) ==
  CASE tool = "erpnext_doc_submit" -> DocSubmitHandler(input, o)
    [] tool = "erpnext_sales_order_submit" -> SalesOrderSubmitHandler(input, o)
    [] tool = "erpnext_sales_invoice_submit" -> SalesInvoiceSubmitHandler(input, o)
    [] tool = "erpnext_doc_create" -> DocCreateHandler(input, o)
    [] tool = "erpnext_doc_update" -> DocUpdateHandler(input, o)
    [] tool = "erpnext_doc_delete" -> DocDeleteHandler(input, o)
    [] tool = "erpnext_doc_cancel" -> DocCancelHandler(input, o)
    [] tool = "erpnext_doc_get" -> DocGetHandler(input, o)
    [] tool = "erpnext_doc_list" -> DocListHandler(input, o)
    [] tool = "erpnext_sales_order_create" -> SalesOrderCreateHandler(input, o)

\* The client method a handler's call runs: its HTTP request...
PrimRequest(c) ==
  CASE c.prim = "get" -> GetRequest(c.doctype, c.name)
    [] c.prim = "list" -> ListRequest(c.doctype, c.options)
    [] c.prim = "create" -> CreateRequest(c.doctype, c.data)
    [] c.prim = "update" -> UpdateRequest(c.doctype, c.name, c.data)
    [] c.prim = "delete" -> DeleteRequest(c.doctype, c.name)
    [] OTHER -> CallMethodRequest(c.method, c.args)

\* ...and its return value or throw, from the outcome of request().
PrimResult(prim, out) ==
  CASE prim = "get" -> GetResult(out)
    [] prim = "list" -> ListResult(out)
    [] prim = "create" -> CreateResult(out)
    [] prim = "update" -> UpdateResult(out)
    [] prim = "delete" -> DeleteResult(out)
    [] OTHER -> CallMethodResult(out)

----------------------------------------------------------------------------
(* Analytics charts (tools/analytics.ts): the payloads of revenue trend,    *)
(* order breakdown and receivables aging, computed from the parameters and  *)
(* from the records list() returned. Months are counted from the current    *)
(* month (0), amounts are whole numbers.                                    *)

\* Largest `months` parameter tried; most records fetched.
MaxMonths == 2
MaxFetched == 2

\* Numbers that are no integers, and values that are no numbers: NaN, the
\* number n + 1/2, the string of the decimal digits of n, a hole of an array.
NaN == [t |-> "NaN"]
Half(n) == [t |-> "number", n |-> n, half |-> TRUE]
Digits(n) == [t |-> "string", digits |-> n]
Empty == [t |-> "empty"]
IsHalf(v) == "half" \in DOMAIN v

\* m < v, for an integer m: a string v is converted to its number.
Less(m, v) ==
  IF v.t = "string" THEN m < v.digits
  ELSE IF IsHalf(v) THEN m <= v.n
  ELSE m < v.n

\* How often `for (let m = 0; m < v; m++)` runs.
Iterations(v) ==
  LET top == IF v.t = "string" THEN v.digits
             ELSE IF IsHalf(v) THEN v.n + 1 ELSE v.n
  IN  IF top > 0 THEN top ELSE 0

\* new Array(v).fill(0): v zeros for an integer v >= 0, a RangeError for any
\* other number, and for a value that is no number the one-element array of
\* that value (filled with 0 in its turn).
NewArray(v) ==
  IF v.t = "number"
    THEN IF ~IsHalf(v) /\ v.n >= 0
           THEN Returned([k \in 1..v.n |-> Num(0)])
           ELSE Thrown(RuntimeError("RangeError"))
    ELSE Returned(<<Num(0)>>)

\* new Date(year, getMonth() - monthsBack + 1 + m, 1), as months from now:
\* the month argument is truncated toward zero.
MonthOffset(getMonth, monthsBack, m) ==
  IF monthsBack.t = "string" THEN 1 - monthsBack.digits + m
  ELSE IF IsHalf(monthsBack)
    THEN IF getMonth - monthsBack.n + m >= 0
           THEN m - monthsBack.n ELSE m - monthsBack.n + 1
  ELSE 1 - monthsBack.n + m

\* new Date(): the month the local clock shows, whether local time is behind
\* UTC, and the instant in days since the epoch.
Now(getMonth, behindUTC, getTime) ==
  [getMonth |-> getMonth, behindUTC |-> behindUTC, getTime |-> getTime]

\* A date string "YYYY-MM-DD" of a record: its calendar month, counted from
\* the current month, and its day of the month.
DateString(month, day) == [t |-> "date", month |-> month, day |-> day]

\* new Date(s) read back with getFullYear() and getMonth(), as months from
\* the current one: a date-only string is midnight UTC, which local time
\* behind UTC shows as the evening before.
LocalMonth(date, now) ==
  IF now.behindUTC /\ date.day = 1 THEN date.month - 1 ELSE date.month

\* (d.getFullYear() - startDate.getFullYear()) * 12 + d.getMonth()
\*   - startDate.getMonth(); NaN for a date that cannot be parsed.
MonthIndex(order, now, monthsBack) ==
  IF order.transaction_date.t = "NaN" THEN NaN
  ELSE Num(LocalMonth(order.transaction_date, now)
           - MonthOffset(now.getMonth, monthsBack, 0))

\* a[idx] += x. Under the index NaN the sum is stored as a property; past the
\* end the array grows to hold it, with holes in between.
AddAt(a, idx, x) ==
  IF idx.t = "NaN" THEN a
  ELSE IF idx.n + 1 <= Len(a)
    THEN [a EXCEPT ![idx.n + 1] = IF @.t = "number" THEN Num(@.n + x) ELSE NaN]
  ELSE [j \in 1..(idx.n + 1) |->
          IF j <= Len(a) THEN a[j] ELSE IF j = idx.n + 1 THEN NaN ELSE Empty]

\* values.reduce((s, v) => s + v, 0)
RECURSIVE Total(_)
Total(values) ==
  IF values = <<>> THEN Num(0)
  ELSE LET rest == Total(Tail(values)) IN
       IF Head(values).t = "number" /\ rest.t = "number"
         THEN Num(Head(values).n + rest.n) ELSE NaN

\* entries.sort((a, b) => b.total - a.total): larger totals first, entries
\* the comparator does not order (equal totals, NaN) kept in place.
RECURSIVE SortByTotal(_)
SortByTotal(entries) ==
  IF entries = <<>> THEN <<>>
  ELSE LET e == entries[Len(entries)]
           before == SortByTotal(SubSeq(entries, 1, Len(entries) - 1))
           greater(s) == e.total.t = "number" /\ s.total.t = "number"
                         /\ e.total.n > s.total.n
           at == IF \E k \in DOMAIN before : greater(before[k])
                   THEN CHOOSE k \in DOMAIN before :
                          greater(before[k]) /\ \A j \in 1..(k - 1) : ~greater(before[j])
                   ELSE Len(before) + 1
       IN  SubSeq(before, 1, at - 1) \o <<e>> \o SubSeq(before, at, Len(before))

\* s.slice(0, end)
Slice(s, end) ==
  LET to == IF end.n >= 0 THEN end.n ELSE Len(s) + end.n
  IN  SubSeq(s, 1, IF to > Len(s) THEN Len(s) ELSE to)

\* The entry of a key, 0 when there is none; Object.entries keeps the order
\* in which the keys were first set.
IndexOf(entries, name) ==
  IF \E k \in DOMAIN entries : entries[k].name = name
    THEN CHOOSE k \in DOMAIN entries : entries[k].name = name
    ELSE 0

\* A chart payload.
Chart(type, labels, datasets) ==
  [type |-> type, labels |-> labels, datasets |-> datasets]
Dataset(label, values) == [label |-> label, values |-> values]

\* The most nodes the trees of a treemap payload hold in all.
MaxNodes == 3

\* The most records a stage of the funnel holds, the two large counts apart.
MaxStage == 3

\* input.months ?? 6; the five customers kept by revenue trend.
DefaultMonths == 6
TopCustomers == 5

\* erpnext_revenue_trend, per customer: byCustomerMonth after the orders.
RECURSIVE ByCustomerMonth(_, _, _, _)
ByCustomerMonth(orders, now, monthsBack, acc) ==
  IF orders = <<>> \/ ~acc.ok THEN acc
  ELSE
    LET order == Head(orders)
        mIdx == MonthIndex(order, now, monthsBack)
        cust == Coalesce(order.customer_name, Str("Unknown"))
        k == IndexOf(acc.val, cust)
        fresh == NewArray(monthsBack)
    IN  IF mIdx.t = "number" /\ (mIdx.n < 0 \/ ~Less(mIdx.n, monthsBack))
          THEN ByCustomerMonth(Tail(orders), now, monthsBack, acc)
        ELSE IF k = 0 /\ ~fresh.ok THEN fresh
        ELSE
          LET entries == IF k = 0
                           THEN Append(acc.val, [name |-> cust, values |-> fresh.val])
                           ELSE acc.val
              j == IF k = 0 THEN Len(entries) ELSE k
          IN  ByCustomerMonth(Tail(orders), now, monthsBack,
                Returned([entries EXCEPT
                            ![j].values = AddAt(@, mIdx, order.grand_total)]))

\* erpnext_revenue_trend, in total: monthlyTotals after the orders.
RECURSIVE MonthlyTotals(_, _, _, _)
MonthlyTotals(orders, now, monthsBack, totals) ==
  IF orders = <<>> THEN totals
  ELSE
    LET order == Head(orders)
        mIdx == MonthIndex(order, now, monthsBack)
    IN  MonthlyTotals(Tail(orders), now, monthsBack,
          IF mIdx.t = "number" /\ mIdx.n >= 0 /\ Less(mIdx.n, monthsBack)
            THEN AddAt(totals, mIdx, order.grand_total)
            ELSE totals)

\* erpnext_revenue_trend (analytics.ts)
RevenueTrendHandler(input, orders, now) ==
  LET monthsBack == Coalesce(input.months, Num(DefaultMonths))
      groupBy == Coalesce(input.group_by, Str("total"))
      months == [m \in 1..Iterations(monthsBack) |->
                   MonthOffset(now.getMonth, monthsBack, m - 1)]
      byCustomerMonth == ByCustomerMonth(orders, now, monthsBack, Returned(<<>>))
      monthlyTotals == NewArray(monthsBack)
      totalled(es) == [k \in DOMAIN es |-> es[k] @@ [total |-> Total(es[k].values)]]
  IN  IF groupBy = Str("customer")
        THEN IF ~byCustomerMonth.ok THEN byCustomerMonth
             ELSE LET sorted == Slice(SortByTotal(totalled(byCustomerMonth.val)),
                                      Num(TopCustomers))
                  IN  Returned(Chart("line", months,
                        [k \in DOMAIN sorted |->
                           Dataset(sorted[k].name, sorted[k].values)]))
        ELSE IF ~monthlyTotals.ok THEN monthlyTotals
             ELSE Returned(Chart("line", months,
                    <<Dataset(Str("Revenue"),
                              MonthlyTotals(orders, now, monthsBack,
                                            monthlyTotals.val))>>))

\* input.limit ?? 8; the statuses in their order of display.
DefaultBreakdownLimit == 8
STATUS_ORDER ==
  <<"Draft", "To Deliver and Bill", "To Bill", "Completed", "Cancelled">>

\* byCustomerStatus[c]?.[s] ?? 0 after the orders: the sum over the orders of
\* that customer in that status.
RECURSIVE StatusValue(_, _, _)
StatusValue(orders, c, s) ==
  IF orders = <<>> THEN 0
  ELSE (IF /\ Coalesce(Head(orders).customer_name, Str("Unknown")) = c
           /\ Coalesce(Head(orders).status, Str("Draft")) = Str(s)
          THEN Head(orders).grand_total ELSE 0)
       + StatusValue(Tail(orders), c, s)

\* The customers in the order in which byCustomerStatus first holds them.
RECURSIVE CustomersOf(_, _)
CustomersOf(orders, acc) ==
  IF orders = <<>> THEN acc
  ELSE LET c == Coalesce(Head(orders).customer_name, Str("Unknown")) IN
       CustomersOf(Tail(orders),
         IF IndexOf(acc, c) = 0 THEN Append(acc, [name |-> c]) ELSE acc)

\* All the orders of a customer, whatever their status.
RECURSIVE CustomerValue(_, _)
CustomerValue(orders, c) ==
  IF orders = <<>> THEN 0
  ELSE (IF Coalesce(Head(orders).customer_name, Str("Unknown")) = c
          THEN Head(orders).grand_total ELSE 0)
       + CustomerValue(Tail(orders), c)

\* erpnext_order_breakdown (analytics.ts), stacked bar
OrderBreakdownHandler(input, orders) ==
  LET limit == Coalesce(input.limit, Num(DefaultBreakdownLimit))
      keys == CustomersOf(orders, <<>>)
      customerTotals ==
        Slice(SortByTotal([k \in DOMAIN keys |->
                             [name |-> keys[k].name,
                              total |-> Num(CustomerValue(orders, keys[k].name))]]),
              limit)
      customers == [k \in DOMAIN customerTotals |-> customerTotals[k].name]
      activeStatuses ==
        SelectSeq(STATUS_ORDER,
          LAMBDA s : \E k \in DOMAIN customers : StatusValue(orders, customers[k], s) > 0)
  IN  Returned(Chart("stacked-bar", customers,
        [j \in DOMAIN activeStatuses |->
           Dataset(Str(activeStatuses[j]),
                   [k \in DOMAIN customers |->
                      Num(StatusValue(orders, customers[k], activeStatuses[j]))])]))

\* input.limit ?? 10; the aging buckets, in days.
DefaultAgingLimit == 10
BUCKETS ==
  << [label |-> "0-30 days", min |-> 0, max |-> 30],
     [label |-> "31-60 days", min |-> 31, max |-> 60],
     [label |-> "61-90 days", min |-> 61, max |-> 90],
     [label |-> "90+ days", min |-> 91, max |-> 99999] >>

\* BUCKETS.findIndex(...): the bucket of an age in days; -1 when none.
BucketIndex(agingDays) ==
  IF \E b \in DOMAIN BUCKETS : agingDays >= BUCKETS[b].min /\ agingDays <= BUCKETS[b].max
    THEN (CHOOSE b \in DOMAIN BUCKETS :
            agingDays >= BUCKETS[b].min /\ agingDays <= BUCKETS[b].max) - 1
    ELSE -1

\* Math.max(0, Math.floor((today.getTime() - dueDate.getTime()) / 86400000)),
\* in days: the due date, else the posting date, else today; a date string
\* is midnight UTC of its day.
AgingDays(inv0, today) ==
  LET dateStr == Coalesce(inv0.due_date, inv0.posting_date)
      dueDate == IF IsNullish(dateStr) THEN today.getTime ELSE dateStr.n
  IN  IF today.getTime - dueDate > 0 THEN today.getTime - dueDate ELSE 0

\* erpnext_ar_aging: byCustomer after the invoices.
RECURSIVE ByCustomerBucket(_, _, _)
ByCustomerBucket(invoices, today, acc) ==
  IF invoices = <<>> THEN acc
  ELSE
    LET invoice == Head(invoices)
        customer == Coalesce(invoice.customer_name, Str("Unknown"))
        k == IndexOf(acc, customer)
        entries == IF k = 0
                     THEN Append(acc, [name |-> customer,
                                       values |-> NewArray(Num(Len(BUCKETS))).val])
                     ELSE acc
        j == IF k = 0 THEN Len(entries) ELSE k
        bucketIdx == BucketIndex(AgingDays(invoice, today))
    IN  ByCustomerBucket(Tail(invoices), today,
          IF bucketIdx >= 0
            THEN [entries EXCEPT
                    ![j].values = AddAt(@, Num(bucketIdx), invoice.outstanding_amount)]
            ELSE entries)

\* erpnext_ar_aging (analytics.ts), stacked or horizontal bar
ArAgingHandler(input, invoices, today) ==
  LET limit == Coalesce(input.limit, Num(DefaultAgingLimit))
      byCustomer == ByCustomerBucket(invoices, today, <<>>)
      sorted == Slice(SortByTotal([k \in DOMAIN byCustomer |->
                                     byCustomer[k] @@
                                       [total |-> Total(byCustomer[k].values)]]),
                      limit)
      customers == [k \in DOMAIN sorted |-> sorted[k].name]
  IN  Returned(Chart("stacked-bar", customers,
        [bi \in DOMAIN BUCKETS |->
           Dataset(Str(BUCKETS[bi].label),
                   [k \in DOMAIN sorted |-> sorted[k].values[bi]])]))

\* IEEE 754 double arithmetic, as far as the handlers use it on counts. A
\* number is 0 or sign * 0.m * 2^e with m a mantissa of 53 bits, the first
\* of them 1.
FloatZero == [t |-> "zero"]
Float(sign, m, e) == [t |-> "float", sign |-> sign, m |-> m, e |-> e]
Mantissa == 53

\* n/d brought into [1/2, 1) by powers of two: n/d = (n'/d') * 2^e.
RECURSIVE Scale(_, _, _)
Scale(n, d, e) ==
  IF n >= d THEN Scale(n, 2 * d, e + 1)
  ELSE IF 2 * n < d THEN Scale(2 * n, d, e - 1)
  ELSE [n |-> n, d |-> d, e |-> e]

\* The first k binary digits of n/d < 1 and the remainder after them.
RECURSIVE Bits(_, _, _, _)
Bits(n, d, k, acc) ==
  IF k = 0 THEN [bits |-> acc, rem |-> n]
  ELSE IF 2 * n >= d THEN Bits(2 * n - d, d, k - 1, Append(acc, 1))
  ELSE Bits(2 * n, d, k - 1, Append(acc, 0))

\* A mantissa plus one unit in its last place; <<>> when every digit was 1.
Increment(m) ==
  IF \A k \in DOMAIN m : m[k] = 1 THEN <<>>
  ELSE LET last == CHOOSE j \in DOMAIN m :
                     m[j] = 0 /\ \A k \in (j + 1)..Len(m) : m[k] = 1
       IN  [k \in DOMAIN m |-> IF k < last THEN m[k] ELSE IF k = last THEN 1 ELSE 0]

\* Rounding to the nearest double, ties to the even mantissa: of the digits
\* (at least one more than the mantissa holds) and of whether digits that
\* are not 0 follow them.
RoundToNearest(sign, digits, more, e) ==
  LET m == SubSeq(digits, 1, Mantissa)
      guard == digits[Mantissa + 1]
      sticky == more \/ \E k \in (Mantissa + 2)..Len(digits) : digits[k] = 1
      up == guard = 1 /\ (sticky \/ m[Mantissa] = 1)
      next == Increment(m)
  IN  IF ~up THEN Float(sign, m, e)
      ELSE IF next = <<>>
        THEN Float(sign, [k \in 1..Mantissa |-> IF k = 1 THEN 1 ELSE 0], e + 1)
      ELSE Float(sign, next, e)

\* a / b for integers a and b > 0.
Divide(a, b) ==
  IF a = 0 THEN FloatZero
  ELSE LET s == Scale(IF a < 0 THEN -a ELSE a, b, 0)
           q == Bits(s.n, s.d, Mantissa + 1, <<>>)
       IN  RoundToNearest(IF a < 0 THEN -1 ELSE 1, q.bits, q.rem # 0, s.e)

\* The digits of m * k, last digit first: m's digits from its last, then
\* the carry's.
RECURSIVE TimesDigits(_, _, _)
TimesDigits(m, k, carry) ==
  IF m = <<>>
    THEN IF carry = 0 THEN <<>>
         ELSE <<carry % 2>> \o TimesDigits(m, k, carry \div 2)
  ELSE LET acc == carry + m[Len(m)] * k IN
       <<acc % 2>> \o TimesDigits(SubSeq(m, 1, Len(m) - 1), k, acc \div 2)

\* x * k for an integer k > 1.
Times(x, k) ==
  IF x.t = "zero" THEN FloatZero
  ELSE LET low == TimesDigits(x.m, k, 0)
           digits == [j \in 1..Len(low) |-> low[Len(low) + 1 - j]]
       IN  RoundToNearest(x.sign, digits, FALSE, x.e + Len(digits) - Mantissa)

\* The integer a mantissa's first k digits spell.
RECURSIVE Whole(_, _)
Whole(m, k) ==
  IF k <= 0 THEN 0 ELSE 2 * Whole(m, k - 1) + (IF k <= Len(m) THEN m[k] ELSE 0)

\* Math.round(x): the nearest integer, a half rounded toward +Infinity.
MathRound(x) ==
  IF x.t = "zero" THEN 0
  ELSE LET half == IF x.e >= 0 /\ x.e < Mantissa THEN x.m[x.e + 1] ELSE 0
           below == \E k \in (x.e + 2)..Mantissa : k >= 1 /\ x.m[k] = 1
           whole == Whole(x.m, x.e)
       IN  IF x.sign = 1 THEN whole + half
           ELSE IF x.e < 0 THEN 0
           ELSE -(whole + (IF half = 1 /\ below THEN 1 ELSE 0))

\* The statuses the pipeline shows, in the order of their columns.
STATUS_MAP ==
  << [status |-> "Draft", label |-> "Draft"],
     [status |-> "Open", label |-> "Open"],
     [status |-> "To Deliver and Bill", label |-> "To Deliver"],
     [status |-> "To Bill", label |-> "To Bill"],
     [status |-> "Completed", label |-> "Completed"],
     [status |-> "Cancelled", label |-> "Cancelled"] >>

\* A variant of the grouping that files an order without status under every
\* status.
GroupedLoose(orders, status) ==
  SelectSeq(orders, LAMBDA o : IsNullish(o.status) \/ o.status = Str(status))

\* grouped[status] after the loop: the orders of that status, in the order
\* fetched; an order without status counts as a draft.
Grouped(orders, status) ==
  SelectSeq(orders, LAMBDA o : Coalesce(o.status, Str("Draft")) = Str(status))

\* A variant of the sum that stops after the first order.
GrandTotalFirst(orders) ==
  IF orders = <<>> THEN 0 ELSE Head(orders).grand_total

\* statusOrders.reduce((sum, o) => sum + (Number(o.grand_total) || 0), 0)
RECURSIVE GrandTotal(_)
GrandTotal(orders) ==
  IF orders = <<>> THEN 0
  ELSE Head(orders).grand_total + GrandTotal(Tail(orders))

\* erpnext_order_pipeline (analytics.ts), kanban
OrderPipelineHandler(input, orders, now) ==
  LET kept == SelectSeq(STATUS_MAP, LAMBDA e : Len(Grouped(orders, e.status)) > 0)
  IN  Returned(
        [title |-> "Sales Order Pipeline",
         generatedAt |-> now.getTime,
         columns |->
           [k \in DOMAIN kept |->
              LET statusOrders == Grouped(orders, kept[k].status) IN
              [status |-> kept[k].status,
               label |-> kept[k].label,
               count |-> Len(statusOrders),
               total |-> GrandTotal(statusOrders),
               orders |-> [j \in DOMAIN statusOrders |->
                             [name |-> statusOrders[j].name,
                              amount |-> statusOrders[j].grand_total]]]]])

\* opps.reduce((s, o) => s + (Number(o.opportunity_amount) || 0), 0)
RECURSIVE OpportunityAmount(_)
OpportunityAmount(opps) ==
  IF opps = <<>> THEN 0
  ELSE Head(opps).opportunity_amount + OpportunityAmount(Tail(opps))

\* prev.length > 0 ? Math.round((count / prev.length) * 100) : 0
ConversionRate(count, previous) ==
  IF previous > 0 THEN MathRound(Times(Divide(count, previous), 100)) ELSE 0

\* erpnext_sales_funnel (analytics.ts)
SalesFunnelHandler(input, leads, opps, quots, orders) ==
  LET period == Coalesce(input.period, Str("all"))
      periodLabels == [this_month |-> "This Month", this_quarter |-> "This Quarter",
                       this_year |-> "This Year", all |-> "All Time"]
  IN  Returned(
        [title |-> "Sales Funnel",
         subtitle |-> IF period.s \in DOMAIN periodLabels
                        THEN periodLabels[period.s] ELSE "All Time",
         stages |->
           << [label |-> "Leads", count |-> Len(leads)],
              [label |-> "Opportunities", count |-> Len(opps),
               value |-> OpportunityAmount(opps),
               conversionRate |-> ConversionRate(Len(opps), Len(leads))],
              [label |-> "Quotations", count |-> Len(quots),
               value |-> GrandTotal(quots),
               conversionRate |-> ConversionRate(Len(quots), Len(opps))],
              [label |-> "Orders", count |-> Len(orders),
               value |-> GrandTotal(orders),
               conversionRate |-> ConversionRate(Len(orders), Len(quots))] >>])

\* prev > 0 ? ((current - prev) / prev) * 100 : 0
KpiDelta(current, previous) ==
  IF previous > 0 THEN Times(Divide(current - previous, previous), 100)
  ELSE FloatZero

\* A variant of the rounding that keeps whole percents.
DeltaWhole(delta) == 10 * MathRound(delta)

\* Math.round(delta * 10) / 10, counted in tenths.
DeltaTenths(delta) == MathRound(Times(delta, 10))

\* delta > 0 ? "up" : delta < 0 ? "down" : "flat"
Trend(delta) ==
  IF delta.t = "zero" THEN "flat" ELSE IF delta.sign = 1 THEN "up" ELSE "down"

\* erpnext_kpi_revenue: the six monthly bins after the orders.
RECURSIVE Sparkline(_, _, _)
Sparkline(allOrders, now, bins) ==
  IF allOrders = <<>> THEN bins
  ELSE
    LET o == Head(allOrders)
        idx == 5 + LocalMonth(o.transaction_date, now)
    IN  Sparkline(Tail(allOrders), now,
          IF o.transaction_date.t # "NaN" /\ idx >= 0 /\ idx < 6
            THEN [bins EXCEPT ![idx + 1] = @ + o.grand_total]
            ELSE bins)

\* erpnext_kpi_revenue (analytics.ts)
KpiRevenueHandler(input, allOrders, now) ==
  LET sparkline == Sparkline(allOrders, now, <<0, 0, 0, 0, 0, 0>>)
      currentTotal == sparkline[6]
      prevTotal == sparkline[5]
      delta == KpiDelta(currentTotal, prevTotal)
  IN  Returned([label |-> "Revenue MTD", value |-> currentTotal,
                delta |-> DeltaTenths(delta), trend |-> Trend(delta),
                sparkline |-> sparkline])

\* erpnext_kpi_orders (analytics.ts)
KpiOrdersHandler(input, currentOrders, prevOrders) ==
  LET currentCount == Len(currentOrders)
      prevCount == Len(prevOrders)
      delta == KpiDelta(currentCount, prevCount)
  IN  Returned([label |-> "Orders This Month", value |-> currentCount,
                delta |-> DeltaTenths(delta), trend |-> Trend(delta)])

\* bins.reduce((s, b) => s + (Number(b[field]) || 0), 0)
RECURSIVE BinTotal(_, _)
BinTotal(bins, field) ==
  IF bins = <<>> THEN 0 ELSE Head(bins)[field] + BinTotal(Tail(bins), field)

\* raw[code][2] and raw[code][3] after the order rows: the lines of the item
\* and their amounts.
RECURSIVE OrderLines(_, _)
OrderLines(soItems, code) ==
  IF soItems = <<>> THEN <<0, 0>>
  ELSE LET rest == OrderLines(Tail(soItems), code) IN
       IF Head(soItems).item_code = code
         THEN <<rest[1] + 1, rest[2] + Head(soItems).amount>>
         ELSE rest

\* erpnext_product_radar: raw, the four raw values of each compared item.
Raw(itemCodes, bins, soItems) ==
  [code \in {itemCodes[k] : k \in DOMAIN itemCodes} |->
     <<BinTotal(bins[code], "actual_qty"), BinTotal(bins[code], "stock_value")>>
     \o OrderLines(soItems, code)]

\* Math.max(1, ...itemCodes.map((c) => raw[c]?.[di] ?? 0))
MaxPerDim(itemCodes, raw, di) ==
  LET values == {raw[itemCodes[k]][di] : k \in DOMAIN itemCodes} \cup {1}
  IN  CHOOSE v \in values : \A w \in values : w <= v

\* erpnext_product_radar (analytics.ts)
ProductRadarHandler(input, topBins, bins, soItems) ==
  LET given == Coalesce(input.items, Arr(<<>>)).a
      itemCodes == IF Len(given) = 0
                     THEN [k \in DOMAIN topBins |-> topBins[k].item_code]
                     ELSE given
      dimensions == <<"Stock Qty", "Stock Value", "Order Lines", "Revenue">>
      raw == Raw(itemCodes, bins, soItems)
  IN  IF Len(itemCodes) < 2
        THEN Returned([title |-> "Product Comparison", type |-> "radar",
                       labels |-> <<>>, datasets |-> <<>>])
        ELSE Returned(
               [title |-> "Product Comparison", type |-> "radar",
                labels |-> dimensions,
                datasets |->
                  [k \in DOMAIN itemCodes |->
                     [label |-> itemCodes[k],
                      values |->
                        [di \in DOMAIN dimensions |->
                           MathRound(Times(Divide(raw[itemCodes[k]][di],
                                                  MaxPerDim(itemCodes, raw, di)),
                                           100))]]]])

\* A node of a treemap payload: value and children are optional.
TreeNode(name, value, children) ==
  [name |-> name, value |-> value, children |-> children]

\* A variant of the flattening that gives a node with children an entry of
\* its own when it carries a value.
RECURSIVE flattenTreeWithParents(_)
flattenTreeWithParents(nodes) ==
  IF nodes = <<>> THEN <<>>
  ELSE LET n == Head(nodes) IN
       (IF IsNullish(n.value) THEN <<>> ELSE <<[name |-> n.name, value |-> n.value]>>)
       \o (IF ~IsNullish(n.children) THEN flattenTreeWithParents(n.children.a) ELSE <<>>)
       \o flattenTreeWithParents(Tail(nodes))

\* flattenTree (ChartViewer.tsx): the entries of the nodes in their order.
RECURSIVE flattenTree(_)
flattenTree(nodes) ==
  IF nodes = <<>> THEN <<>>
  ELSE LET n == Head(nodes) IN
       (IF ~IsNullish(n.children) /\ Len(n.children.a) > 0
          THEN flattenTree(n.children.a)
        ELSE IF ~IsNullish(n.value)
          THEN <<[name |-> n.name, value |-> n.value]>>
        ELSE <<>>)
       \o flattenTree(Tail(nodes))

----------------------------------------------------------------------------
(* The tool registry (tools/mod.ts) and the dispatcher (client.ts). Of the  *)
(* thirteen buckets the model holds the tools above: three of the sales     *)
(* bucket and the whole generic operations bucket.                          *)

\* A variant of the tool definition whose schema requires no argument.
ToolOptionalArgs(name, category, description, properties, required) ==
  [name |-> name, description |-> description, category |-> category,
   inputSchema |-> [type |-> "object", properties |-> properties,
                    required |-> <<>>],
   handler |-> name]

\* An ErpNextTool. The handler is the function Handler runs under this name.
Tool(name, category, description, properties, required) ==
  [name |-> name, description |-> description, category |-> category,
   inputSchema |-> [type |-> "object", properties |-> properties,
                    required |-> required],
   handler |-> name]

salesTools ==
  << Tool("erpnext_sales_order_create", "sales", "Create a new Sales Order.",
          {"customer", "items", "delivery_date"}, <<"customer", "items">>),
     Tool("erpnext_sales_order_submit", "sales", "Submit a Sales Order.",
          {"name"}, <<"name">>),
     Tool("erpnext_sales_invoice_submit", "sales", "Submit a Sales Invoice.",
          {"name"}, <<"name">>) >>

operationsTools ==
  << Tool("erpnext_doc_create", "operations", "Create any ERPNext document.",
          {"doctype", "data"}, <<"doctype", "data">>),
     Tool("erpnext_doc_update", "operations", "Update any ERPNext document.",
          {"doctype", "name", "data"}, <<"doctype", "name", "data">>),
     Tool("erpnext_doc_delete", "operations", "Delete any ERPNext document.",
          {"doctype", "name"}, <<"doctype", "name">>),
     Tool("erpnext_doc_submit", "operations", "Submit any ERPNext document.",
          {"doctype", "name"}, <<"doctype", "name">>),
     Tool("erpnext_doc_cancel", "operations", "Cancel any ERPNext submitted document.",
          {"doctype", "name"}, <<"doctype", "name">>),
     Tool("erpnext_doc_get", "operations", "Get any ERPNext document by DocType and name.",
          {"doctype", "name"}, <<"doctype", "name">>),
     Tool("erpnext_doc_list", "operations", "List any ERPNext documents by DocType.",
          {"doctype", "fields", "filters", "limit", "order_by"}, <<"doctype">>)
       @@ [_meta |-> DoclistViewer] >>

\* All tools grouped by category; flat array of all tools.
toolsByCategory == [sales |-> salesTools, operations |-> operationsTools]
allTools == salesTools \o operationsTools

\* toolsByCategory[category] ?? []
getToolsByCategory(category) ==
  IF category \in DOMAIN toolsByCategory THEN toolsByCategory[category] ELSE <<>>

\* categories.flatMap(f)
RECURSIVE FlatMapCategories(_)
FlatMapCategories(categories) ==
  IF categories = <<>> THEN <<>>
  ELSE getToolsByCategory(Head(categories)) \o FlatMapCategories(Tail(categories))

\* new ErpNextToolsClient(options)
NoOptions == [hasCategories |-> FALSE, categories |-> <<>>]
Categories(cats) == [hasCategories |-> TRUE, categories |-> cats]
ToolsClient(options) ==
  IF options.hasCategories THEN FlatMapCategories(options.categories) ELSE allTools

\* ts.map((t) => t.name)
Names(ts) == [k \in DOMAIN ts |-> ts[k].name]

\* ts.find((t) => t.name === name): the first match
Registered(ts, name) == \E k \in DOMAIN ts : ts[k].name = name
Find(ts, name) ==
  ts[CHOOSE k \in DOMAIN ts :
       ts[k].name = name /\ \A j \in 1..(k - 1) : ts[j].name # name]

\* A variant of the error that names the requested tool only.
UnknownToolErrorTerse(name, available) ==
  [type |-> "Error", unknown |-> name, available |-> <<>>]

\* new Error(`[ErpNextToolsClient] Unknown tool: "${name}". Available: ...`)
UnknownToolError(name, available) ==
  [type |-> "Error", unknown |-> name, available |-> available]

\* A variant of the projection that never carries the UI hint.
toMCPWireFormatPlain(tool) ==
  [name |-> tool.name, description |-> tool.description,
   inputSchema |-> tool.inputSchema]

\* toMCPFormat / toMCPWireFormat: name, description, inputSchema, and _meta
\* when the tool has one.
toMCPWireFormat(tool) ==
  LET wire == [name |-> tool.name, description |-> tool.description,
               inputSchema |-> tool.inputSchema]
  IN  IF "_meta" \in DOMAIN tool THEN wire @@ [_meta |-> tool._meta] ELSE wire
toMCPFormat(ts) == [k \in DOMAIN ts |-> toMCPWireFormat(ts[k])]

----------------------------------------------------------------------------
(* The remote system: one document per document type, with the lifecycle   *)
(* tag and the modification stamp its submit procedure checks.             *)

Doctypes == {"Sales Order", "Sales Invoice"}
DocName == "DOC-1"

Missing == [exists |-> FALSE, docstatus |-> 0, modified |-> 0]
Stored(docstatus, modified) ==
  [exists |-> TRUE, docstatus |-> docstatus, modified |-> modified]

decodeURIComponent(s) ==
  CASE s = "Sales%20Order" -> "Sales Order"
    [] s = "Sales%20Invoice" -> "Sales Invoice"
    [] OTHER -> s

\* The record GET /api/resource/{doctype}/{name} returns.
RemoteDoc(st, doctype) ==
  Obj([name |-> DocName, doctype |-> doctype,
       modified |-> st[doctype].modified, docstatus |-> st[doctype].docstatus])

ErrorBody(excType) ==
  Obj([exc_type |-> Str(excType), _server_messages |-> Str("[...]")])

NotFound == Response(404, "Not Found", "application/json", JsonWire(ErrorBody("DoesNotExistError")))
Rejected(status, excType) ==
  Response(status, "Rejected", "application/json", JsonWire(ErrorBody(excType)))
Ok(v) == Response(200, "OK", "application/json", JsonWire(v))

Known(st, doctype, name) ==
  doctype \in Doctypes /\ name = DocName /\ st[doctype].exists

\* GET /api/resource/{doctype}/{name}
RemoteGet(req, st) ==
  LET doctype == decodeURIComponent(req.path[3])
      name == decodeURIComponent(req.path[4])
  IN  [resp |-> IF Known(st, doctype, name)
                  THEN Ok(Obj([data |-> RemoteDoc(st, doctype)]))
                  ELSE NotFound,
       store |-> st]

\* POST /api/method/frappe.client.submit: the document must exist, carry the
\* current modification stamp, and be a draft.
RemoteSubmit(req, st, rejectStatus) ==
  LET d == Prop(req.body, "doc") IN
  IF ~(HasProp(d, "doctype") /\ HasProp(d, "name") /\ Known(st, d.f.doctype, d.f.name))
    THEN [resp |-> NotFound, store |-> st]
  ELSE IF ~HasProp(d, "modified") \/ d.f.modified # st[d.f.doctype].modified
    THEN [resp |-> Rejected(rejectStatus, "TimestampMismatchError"), store |-> st]
  ELSE IF st[d.f.doctype].docstatus # 0
    THEN [resp |-> Rejected(rejectStatus, "ValidationError"), store |-> st]
  ELSE LET st2 == [st EXCEPT ![d.f.doctype] = Stored(1, @.modified + 1)]
       IN  [resp |-> Ok(Obj([message |-> RemoteDoc(st2, d.f.doctype)])),
            store |-> st2]

\* GET /api/resource/{doctype}: the records of that type, as asked, by name
\* and modification stamp.
RemoteList(req, st) ==
  LET doctype == decodeURIComponent(req.path[3])
  IN  [resp |-> IF doctype \notin Doctypes THEN NotFound
                ELSE IF st[doctype].exists
                  THEN Ok(Obj([data |-> Arr(<<Obj([name |-> DocName,
                                                   modified |-> st[doctype].modified])>>)]))
                  ELSE Ok(Obj([data |-> Arr(<<>>)])),
       store |-> st]

\* POST /api/resource/{doctype}: a new draft, unless the name is taken.
RemoteCreate(req, st) ==
  LET doctype == decodeURIComponent(req.path[3]) IN
  IF doctype \notin Doctypes \/ ~HasProp(req.body, "data")
    THEN [resp |-> NotFound, store |-> st]
  ELSE IF st[doctype].exists
    THEN [resp |-> Rejected(409, "DuplicateEntryError"), store |-> st]
  ELSE LET st2 == [st EXCEPT ![doctype] = Stored(0, 0)]
       IN  [resp |-> Ok(Obj([data |-> RemoteDoc(st2, doctype)])), store |-> st2]

\* PUT /api/resource/{doctype}/{name}: drafts only; the stamp moves.
RemoteUpdate(req, st, rejectStatus) ==
  LET doctype == decodeURIComponent(req.path[3])
      name == decodeURIComponent(req.path[4])
  IN
  IF ~(Known(st, doctype, name) /\ HasProp(req.body, "data"))
    THEN [resp |-> NotFound, store |-> st]
  ELSE IF st[doctype].docstatus # 0
    THEN [resp |-> Rejected(rejectStatus, "UpdateAfterSubmitError"), store |-> st]
  ELSE LET st2 == [st EXCEPT ![doctype].modified = @ + 1]
       IN  [resp |-> Ok(Obj([data |-> RemoteDoc(st2, doctype)])), store |-> st2]

\* DELETE /api/resource/{doctype}/{name}: not for submitted records.
RemoteDelete(req, st, rejectStatus) ==
  LET doctype == decodeURIComponent(req.path[3])
      name == decodeURIComponent(req.path[4])
  IN
  IF ~Known(st, doctype, name)
    THEN [resp |-> NotFound, store |-> st]
  ELSE IF st[doctype].docstatus = 1
    THEN [resp |-> Rejected(rejectStatus, "LinkExistsError"), store |-> st]
  ELSE [resp |-> Ok(Obj([message |-> Str("ok")])),
        store |-> [st EXCEPT ![doctype] = Missing]]

\* POST /api/method/frappe.client.cancel: submitted records only.
RemoteCancel(req, st, rejectStatus) ==
  LET doctype == Prop(req.body, "doctype")
      name == Prop(req.body, "name")
  IN
  IF ~(HasProp(req.body, "doctype") /\ HasProp(req.body, "name")
       /\ Known(st, doctype.s, name.s))
    THEN [resp |-> NotFound, store |-> st]
  ELSE IF st[doctype.s].docstatus # 1
    THEN [resp |-> Rejected(rejectStatus, "ValidationError"), store |-> st]
  ELSE LET st2 == [st EXCEPT ![doctype.s] = Stored(2, @.modified + 1)]
       IN  [resp |-> Ok(Obj([message |-> RemoteDoc(st2, doctype.s)])), store |-> st2]

RemoteProcess(req, st, rejectStatus) ==
  IF req.path[2] = "resource" THEN
    CASE req.method = "GET" /\ Len(req.path) = 4 -> RemoteGet(req, st)
      [] req.method = "GET" /\ Len(req.path) = 3 -> RemoteList(req, st)
      [] req.method = "POST" /\ Len(req.path) = 3 -> RemoteCreate(req, st)
      [] req.method = "PUT" /\ Len(req.path) = 4 -> RemoteUpdate(req, st, rejectStatus)
      [] req.method = "DELETE" /\ Len(req.path) = 4 -> RemoteDelete(req, st, rejectStatus)
      [] OTHER -> [resp |-> NotFound, store |-> st]
  ELSE IF req.method = "POST" /\ req.path = <<"api", "method", "frappe.client.submit">>
    THEN RemoteSubmit(req, st, rejectStatus)
  ELSE IF req.method = "POST" /\ req.path = <<"api", "method", "frappe.client.cancel">>
    THEN RemoteCancel(req, st, rejectStatus)
  ELSE [resp |-> NotFound, store |-> st]

\* Highest modification stamp the store is followed to.
MaxStamp == MaxModified + 1

\* Statuses the remote uses to reject a submit.
RejectStatuses == {409, 417}

\* Answers that do not come from the document store: a permission error, a
\* gateway's text page, a gateway's own 408, a JSON content type over bytes that
\* are not JSON, and a success status over a text page or over JSON null.
FaultResponses ==
  { Response(403, "Forbidden", "application/json", JsonWire(ErrorBody("PermissionError"))),
    Response(500, "Internal Server Error", "application/json",
             JsonWire(Obj([message |-> Str("Internal Server Error")]))),
    Response(502, "Bad Gateway", "text/html", TextWire("<html>")),
    Response(408, "Request Timeout", "text/html", TextWire("")),
    Response(500, "Internal Server Error", "application/json", TextWire("")),
    Response(200, "OK", "text/html", TextWire("<html>")),
    Response(200, "OK", "application/json", JsonWire(Null)) }

----------------------------------------------------------------------------
(* State.                                                                  *)

ClientConfigs ==
  { [hasTimeout |-> FALSE, timeoutMs |-> 0],
    [hasTimeout |-> TRUE, timeoutMs |-> 6000] }

NoResponse == Response(0, "", "", TextWire(""))
NoInput == [doctype |-> "", name |-> ""]

IdleInvocation == [st |-> "idle", tool |-> "", input |-> NoInput, result |-> <<>>]

\* let _client = null; setFrappeClient(client) by the embedding program (0);
\* getFrappeClient() called for invocation i sets it when it is null.
NoClient == [set |-> FALSE, by |-> 0]
ClientSetBy(who) == [set |-> TRUE, by |-> who]
NoRequest ==
  [phase |-> "none", prim |-> "", net |-> "", handled |-> FALSE,
   resp |-> NoResponse, timer |-> FALSE, elapsed |-> 0]

\* request(): url, AbortController, setTimeout(abort, timeoutMs), fetch(...)
RequestStarted(prim) ==
  [phase |-> "fetching", prim |-> prim, net |-> "sent", handled |-> FALSE,
   resp |-> NoResponse, timer |-> TRUE, elapsed |-> 0]

\* What ended a request() call, the response it had received, if any, and
\* whether the remote system had processed the request.
Ended(why, resp, handled) == [why |-> why, resp |-> resp, handled |-> handled]

\* main has not yet built the wire-format list; once it has.
NotBuilt == [built |-> FALSE, list |-> <<>>]
Built(list) == [built |-> TRUE, list |-> list]

\* No analytics handler has run; one has, for these parameters and records.
NoChart ==
  [tool |-> "", input |-> <<>>, fetched |-> <<>>, now |-> <<>>, result |-> <<>>]
Charted(tool, input, fetched, now, result) ==
  [tool |-> tool, input |-> input, fetched |-> fetched, now |-> now,
   result |-> <<result>>]

\* What the constructor and main fix at startup.
startup == <<toolsOptions, mcpTools>>

\* Before any invocation: either nothing has set the singleton, or the
\* embedding program has injected a client it constructed with a timeout of
\* its own.
InitClient ==
  \/ client = NoClient /\ timeoutMs = 0
  \/ /\ client = ClientSetBy(0)
     /\ timeoutMs \in {ClientTimeout(c) : c \in {x \in ClientConfigs : x.hasTimeout}}

Init ==
  /\ toolsOptions = NoOptions
  /\ tools = ToolsClient(toolsOptions)
  /\ mcpTools = NotBuilt
  /\ InitClient
  /\ store \in [Doctypes -> {Missing, Stored(0, 0), Stored(1, 0)}]
  /\ inv = [i \in Inv |-> IdleInvocation]
  /\ outs = [i \in Inv |-> <<>>]
  /\ calls = [i \in Inv |-> <<>>]
  /\ sent = [i \in Inv |-> <<>>]
  /\ rq = [i \in Inv |-> NoRequest]
  /\ cause = [i \in Inv |-> <<>>]
  /\ took = [i \in Inv |-> <<>>]
  /\ chart = NoChart

----------------------------------------------------------------------------
(* The handler runs from one await to the next.                            *)

\* Invocation i, with tool and input, has awaited the outcomes o: the handler
\* makes its next client call (whose request() goes as far as calling fetch),
\* or the invocation ends with the handler's return value or throw.
Run(i, tool, input, o) ==
  LET e == Handler(tool, input, o) IN
  /\ outs' = [outs EXCEPT ![i] = o]
  /\ IF e.kind = "call"
       THEN /\ calls' = [calls EXCEPT ![i] = Append(@, e)]
            /\ sent' = [sent EXCEPT ![i] = Append(@, PrimRequest(e))]
            /\ rq' = [rq EXCEPT ![i] = RequestStarted(e.prim)]
            /\ inv' = [inv EXCEPT ![i] =
                 [st |-> "running", tool |-> tool, input |-> input, result |-> <<>>]]
       ELSE /\ UNCHANGED <<calls, sent>>
            /\ rq' = [rq EXCEPT ![i] = NoRequest]
            /\ inv' = [inv EXCEPT ![i] =
                 [st |-> "done", tool |-> tool, input |-> input,
                  result |-> <<IF e.kind = "return" THEN Returned(e.val)
                                                   ELSE Thrown(e.err)>>]]

\* The client call in progress settles with `out`; the handler resumes.
Settle(i, out, why) ==
  /\ cause' = [cause EXCEPT ![i] = Append(@, why)]
  /\ Run(i, inv[i].tool, inv[i].input, Append(outs[i], out))

\* A variant of the catch around fetch that sends the request again.
RequestFailedRetry(i, errName) ==
  /\ sent' = [sent EXCEPT ![i] = Append(@, @[Len(@)])]
  /\ rq' = [rq EXCEPT ![i] = RequestStarted(rq[i].prim)]
  /\ UNCHANGED <<inv, outs, calls, cause>>

\* request(), catch around fetch: clearTimeout, throw the classified error.
RequestFailed(i, errName) ==
  Settle(i, PrimResult(rq[i].prim, RequestCatch(errName)),
         Ended(IF errName = "AbortError" THEN "timer" ELSE "network",
               NoResponse, rq[i].handled))

\* A variant of request() that keeps the response in a place all calls in
\* progress share: a call reads the response of the first call that has one.
RequestAnsweredShared(i) ==
  LET j == CHOOSE j \in DOMAIN rq :
             /\ rq[j].phase = "reading"
             /\ \A l \in DOMAIN rq : rq[l].phase = "reading" => j <= l
  IN  Settle(i, PrimResult(rq[i].prim, RequestAfterFetch(rq[j].resp)),
             Ended("response", rq[i].resp, rq[i].handled))

\* request(), after fetch resolved and the body was read.
RequestAnswered(i) ==
  Settle(i, PrimResult(rq[i].prim, RequestAfterFetch(rq[i].resp)),
         Ended("response", rq[i].resp, rq[i].handled))

----------------------------------------------------------------------------
(* Actions.                                                                *)

\* Arguments a caller may pass, by tool: a string argument left out is "",
\* any other argument left out is undefined. Orders always carry a date.
SomeData == Obj([customer |-> "CUST-1"])
GoodItem == Obj([item_code |-> "ITEM-1", qty |-> 1, rate |-> 1])
BadItem == Obj([item_code |-> "ITEM-1", qty |-> 1])
ToolInputs(tool) ==
  CASE tool \in {"erpnext_doc_submit", "erpnext_doc_delete", "erpnext_doc_cancel",
                 "erpnext_doc_get"} ->
         [doctype : Doctypes \cup {""}, name : {DocName, ""}]
    [] tool = "erpnext_doc_list" -> [doctype : Doctypes \cup {""}]
    [] tool = "erpnext_doc_create" ->
         [doctype : Doctypes \cup {""}, data : {Undef, Str("text"), SomeData}]
    [] tool = "erpnext_doc_update" ->
         [doctype : Doctypes \cup {""}, name : {DocName, ""}, data : {Undef, SomeData}]
    [] tool = "erpnext_sales_order_create" ->
         [customer : {"CUST-1", ""},
          items : {Undef, Arr(<<>>), Arr(<<GoodItem>>), Arr(<<GoodItem, BadItem>>)},
          delivery_date : {"2026-01-01"}]
    [] tool \in {"erpnext_sales_order_submit", "erpnext_sales_invoice_submit"} ->
         [doctype : {""}, name : {DocName, ""}]
    [] OTHER -> [doctype : Doctypes, name : {DocName}]

\* Names a caller may ask for: every tool of the catalog, and one that is in
\* no bucket.
ToolNames == {allTools[k].name : k \in DOMAIN allTools} \cup {"erpnext_doc_archive"}

\* getFrappeClient(), called for invocation i: the singleton, created with
\* the default timeout when it is null.
getFrappeClient(i) ==
  IF client.set
    THEN UNCHANGED <<client, timeoutMs>>
    ELSE /\ client' = ClientSetBy(i)
         /\ timeoutMs' = ClientTimeout([hasTimeout |-> FALSE, timeoutMs |-> 0])

\* ErpNextToolsClient.execute(name, args): look the tool up, throw when there
\* is none, else take the client and run the handler to its first await.
execute(i, name, args) ==
  IF ~Registered(tools, name)
    THEN /\ inv' = [inv EXCEPT ![i] =
                [st |-> "done", tool |-> name, input |-> args,
                 result |-> <<Thrown(UnknownToolError(name, Names(tools)))>>]]
         /\ UNCHANGED <<client, timeoutMs, outs, calls, sent, rq>>
    ELSE /\ getFrappeClient(i)
         /\ Run(i, Find(tools, name).handler, args, <<>>)

\* A caller invokes a tool by name.
Invoke(i) ==
  /\ inv[i].st = "idle"
  /\ \E name \in ToolNames : \E args \in ToolInputs(name) : execute(i, name, args)
  /\ UNCHANGED <<tools, store, cause>>

\* The remote receives the request and answers it from its documents.
RemoteHandle(i) ==
  /\ rq[i].phase = "fetching" /\ rq[i].net = "sent"
  /\ \E rs \in RejectStatuses :
       LET r == RemoteProcess(sent[i][Len(sent[i])], store, rs) IN
       /\ \A d \in Doctypes : r.store[d].modified <= MaxStamp
       /\ store' = r.store
       /\ rq' = [rq EXCEPT ![i].net = "answered", ![i].resp = r.resp,
                           ![i].handled = TRUE]
  /\ UNCHANGED <<tools, client, timeoutMs, inv, outs, calls, sent, cause>>

\* The remote side answers without touching its documents.
RemoteFault(i) ==
  /\ rq[i].phase = "fetching" /\ rq[i].net = "sent"
  /\ \E r \in FaultResponses :
       rq' = [rq EXCEPT ![i].net = "answered", ![i].resp = r]
  /\ UNCHANGED <<tools, client, timeoutMs, store, inv, outs, calls, sent, cause>>

\* fetch resolves with the response's status line and headers; request()
\* clears its timer and starts reading the body.
HeadersArrive(i) ==
  /\ rq[i].phase = "fetching" /\ rq[i].net = "answered"
  /\ rq' = [rq EXCEPT ![i].phase = "reading", ![i].timer = FALSE]
  /\ UNCHANGED <<tools, client, timeoutMs, store, inv, outs, calls, sent, cause>>

\* fetch rejects: the transport failed before a response arrived.
FetchFail(i) ==
  /\ rq[i].phase = "fetching"
  /\ RequestFailed(i, "TypeError")
  /\ UNCHANGED <<tools, client, timeoutMs, store>>

\* The timer set by request() fires: controller.abort(), fetch rejects with
\* an AbortError.
TimerFire(i) ==
  /\ rq[i].phase = "fetching" /\ rq[i].timer
  /\ rq[i].elapsed >= timeoutMs
  /\ RequestFailed(i, "AbortError")
  /\ UNCHANGED <<tools, client, timeoutMs, store>>

\* The body arrives in full: request() parses it and checks the status.
BodyArrive(i) ==
  /\ rq[i].phase = "reading"
  /\ RequestAnswered(i)
  /\ UNCHANGED <<tools, client, timeoutMs, store>>

\* The connection breaks while the body is read: response.json() or
\* response.text() rejects, and nothing in request() catches it.
BodyFail(i) ==
  /\ rq[i].phase = "reading"
  /\ Settle(i, PrimResult(rq[i].prim, Thrown(RuntimeError("TypeError"))),
            Ended("body", rq[i].resp, rq[i].handled))
  /\ UNCHANGED <<tools, client, timeoutMs, store>>

\* Time passes for a request in progress. A pending timer fires before time
\* moves past its deadline; once the timer is cleared nothing stops the clock.
Tick(i) ==
  /\ rq[i].phase \in {"fetching", "reading"}
  /\ rq[i].timer => rq[i].elapsed < timeoutMs
  /\ rq[i].elapsed <= timeoutMs
  /\ rq' = [rq EXCEPT ![i].elapsed = @ + timeoutMs \div TicksPerTimeout]
  /\ UNCHANGED <<tools, client, timeoutMs, store, inv, outs, calls, sent, cause>>

\* The caller has the invocation's result or error; nothing of the invocation
\* is kept.
Deliver(i) ==
  /\ inv[i].st = "done"
  /\ inv' = [inv EXCEPT ![i] = IdleInvocation]
  /\ outs' = [outs EXCEPT ![i] = <<>>]
  /\ calls' = [calls EXCEPT ![i] = <<>>]
  /\ sent' = [sent EXCEPT ![i] = <<>>]
  /\ cause' = [cause EXCEPT ![i] = <<>>]
  /\ UNCHANGED <<tools, client, timeoutMs, store, rq>>

\* Another writer edits a draft: its modification stamp changes.
OtherWriter(doctype) ==
  /\ store[doctype].exists /\ store[doctype].docstatus = 0
  /\ store[doctype].modified < MaxModified
  /\ store' = [store EXCEPT ![doctype].modified = @ + 1]
  /\ UNCHANGED <<tools, client, timeoutMs, inv, outs, calls, sent, rq, cause>>

Next ==
  \/ \E i \in Inv :
       \/ Invoke(i) /\ UNCHANGED <<startup, took, chart>>
       \/ RemoteHandle(i) /\ UNCHANGED <<startup, took, chart>>
       \/ RemoteFault(i) /\ UNCHANGED <<startup, took, chart>>
       \/ HeadersArrive(i) /\ UNCHANGED <<startup, took, chart>>
       \/ FetchFail(i) /\ UNCHANGED <<startup, took, chart>>
       \/ TimerFire(i) /\ UNCHANGED <<startup, took, chart>>
       \/ BodyArrive(i) /\ UNCHANGED <<startup, took, chart>>
       \/ BodyFail(i) /\ UNCHANGED <<startup, took, chart>>
       \/ Tick(i) /\ UNCHANGED <<startup, took, chart>>
       \/ Deliver(i) /\ UNCHANGED <<startup, took, chart>>
  \/ \E doctype \in Doctypes : OtherWriter(doctype) /\ UNCHANGED <<startup, took, chart>>

Spec == Init /\ [][Next]_vars

----------------------------------------------------------------------------
(* Two callers at once. Each invokes one tool on the same draft order; the  *)
(* remote answers or fails, and time passes, as before.                     *)

Pair == {1, 2}

PairTools == {"erpnext_doc_submit", "erpnext_doc_update"}
PairInputs(name) ==
  IF name = "erpnext_doc_update"
    THEN {[doctype |-> "Sales Order", name |-> DocName, data |-> SomeData]}
    ELSE {[doctype |-> "Sales Order", name |-> DocName]}

InitPair ==
  /\ toolsOptions = NoOptions
  /\ tools = ToolsClient(toolsOptions)
  /\ mcpTools = NotBuilt
  /\ InitClient
  /\ store = [d \in Doctypes |-> Stored(0, 0)]
  /\ inv = [i \in Pair |-> IdleInvocation]
  /\ outs = [i \in Pair |-> <<>>]
  /\ calls = [i \in Pair |-> <<>>]
  /\ sent = [i \in Pair |-> <<>>]
  /\ rq = [i \in Pair |-> NoRequest]
  /\ cause = [i \in Pair |-> <<>>]
  /\ took = [i \in Pair |-> <<>>]
  /\ chart = NoChart

InvokePair(i) ==
  /\ inv[i].st = "idle"
  /\ \E name \in PairTools : \E args \in PairInputs(name) : execute(i, name, args)
  /\ UNCHANGED <<tools, store, cause>>

NextPair ==
  \E i \in Pair :
    \/ InvokePair(i) /\ UNCHANGED <<startup, took, chart>>
    \/ RemoteHandle(i) /\ UNCHANGED <<startup, took, chart>>
    \/ RemoteFault(i) /\ UNCHANGED <<startup, took, chart>>
    \/ HeadersArrive(i) /\ UNCHANGED <<startup, took, chart>>
    \/ FetchFail(i) /\ UNCHANGED <<startup, took, chart>>
    \/ TimerFire(i) /\ UNCHANGED <<startup, took, chart>>
    \/ BodyArrive(i) /\ UNCHANGED <<startup, took, chart>>
    \/ BodyFail(i) /\ UNCHANGED <<startup, took, chart>>
    \/ Tick(i) /\ UNCHANGED <<startup, took, chart>>

SpecPair == InitPair /\ [][NextPair]_vars

----------------------------------------------------------------------------
(* One invocation of a submit tool on a draft, with its clock followed: the *)
(* observer notes, for each request() call that ends, the time it took.     *)

InitWindows ==
  /\ toolsOptions = NoOptions
  /\ tools = ToolsClient(toolsOptions)
  /\ mcpTools = NotBuilt
  /\ InitClient
  /\ store = [d \in Doctypes |-> Stored(0, 0)]
  /\ inv = [i \in Inv |-> IdleInvocation]
  /\ outs = [i \in Inv |-> <<>>]
  /\ calls = [i \in Inv |-> <<>>]
  /\ sent = [i \in Inv |-> <<>>]
  /\ rq = [i \in Inv |-> NoRequest]
  /\ cause = [i \in Inv |-> <<>>]
  /\ took = [i \in Inv |-> <<>>]
  /\ chart = NoChart

InvokeSubmit(i) ==
  /\ inv[i].st = "idle"
  /\ \E name \in SubmitTools :
       \E args \in {a \in ToolInputs(name) : a.name # ""} : execute(i, name, args)
  /\ UNCHANGED <<tools, store, cause>>

\* The time the call that ends in this step took: from its request's start.
Observe ==
  took' = [i \in Inv |->
             IF Len(cause'[i]) > Len(cause[i])
               THEN Append(took[i], rq[i].elapsed)
               ELSE took[i]]

NextWindows ==
  \E i \in Inv :
    \/ InvokeSubmit(i) /\ Observe /\ UNCHANGED <<startup, chart>>
    \/ RemoteHandle(i) /\ Observe /\ UNCHANGED <<startup, chart>>
    \/ RemoteFault(i) /\ Observe /\ UNCHANGED <<startup, chart>>
    \/ HeadersArrive(i) /\ Observe /\ UNCHANGED <<startup, chart>>
    \/ FetchFail(i) /\ Observe /\ UNCHANGED <<startup, chart>>
    \/ TimerFire(i) /\ Observe /\ UNCHANGED <<startup, chart>>
    \/ BodyArrive(i) /\ Observe /\ UNCHANGED <<startup, chart>>
    \/ BodyFail(i) /\ Observe /\ UNCHANGED <<startup, chart>>
    \/ Tick(i) /\ Observe /\ UNCHANGED <<startup, chart>>

SpecWindows == InitWindows /\ [][NextWindows]_vars

----------------------------------------------------------------------------
(* The server's startup followed: the dispatcher is constructed with the   *)
(* category list of the command line, or with none; main builds the         *)
(* wire-format list; tools are executed by name and the remote answers.     *)

\* Longest category list tried.
MaxCategories == 2

\* Keys of toolsByCategory, and a name that is no category.
CategoryNames == {"sales", "operations", "billing"}

\* categoriesArg.split("=")[1].split(","): any list of names, repeats included.
RECURSIVE CategoryLists(_)
CategoryLists(n) ==
  IF n = 0 THEN {<<>>}
  ELSE CategoryLists(n - 1) \cup
       {Append(c, x) : c \in CategoryLists(n - 1), x \in CategoryNames}

InitCategories ==
  /\ toolsOptions \in
       {NoOptions} \cup {Categories(c) : c \in CategoryLists(MaxCategories)}
  /\ tools = ToolsClient(toolsOptions)
  /\ mcpTools = NotBuilt
  /\ InitClient
  /\ store = [d \in Doctypes |-> Stored(0, 0)]
  /\ inv = [i \in Inv |-> IdleInvocation]
  /\ outs = [i \in Inv |-> <<>>]
  /\ calls = [i \in Inv |-> <<>>]
  /\ sent = [i \in Inv |-> <<>>]
  /\ rq = [i \in Inv |-> NoRequest]
  /\ cause = [i \in Inv |-> <<>>]
  /\ took = [i \in Inv |-> <<>>]
  /\ chart = NoChart

\* const mcpTools = toolsClient.toMCPFormat()
RegisterTools ==
  /\ ~mcpTools.built
  /\ mcpTools' = Built(toMCPFormat(tools))
  /\ UNCHANGED <<toolsOptions, tools, client, timeoutMs, store, inv, outs,
                 calls, sent, rq, cause, took, chart>>

NextCategories ==
  \/ RegisterTools
  \/ \E i \in Inv :
       \/ Invoke(i) /\ UNCHANGED <<startup, took, chart>>
       \/ RemoteHandle(i) /\ UNCHANGED <<startup, took, chart>>
       \/ HeadersArrive(i) /\ UNCHANGED <<startup, took, chart>>
       \/ BodyArrive(i) /\ UNCHANGED <<startup, took, chart>>
       \/ Deliver(i) /\ UNCHANGED <<startup, took, chart>>

SpecCategories == InitCategories /\ [][NextCategories]_vars

----------------------------------------------------------------------------
(* The analytics handlers as functions of their parameters, of the records  *)
(* list() returned and of the clock.                                        *)

\* Sequences of at most n members of S.
Lists(S, n) == UNION {[1..k -> S] : k \in 0..n}

\* now.getMonth(): January, July.
GetMonths == {0, 6}

\* The day of the first run, since the epoch; the clocks of revenue trend,
\* whose records carry their dates counted from the current month; the
\* clocks of the tools whose records carry days since the epoch.
Epoch == {100000}
TrendClocks ==
  {Now(m, w, d) : m \in GetMonths, w \in BOOLEAN, d \in Epoch}
Clocks == {Now(0, FALSE, d + k) : d \in Epoch, k \in {0, 1}}

\* The `months` parameter: absent, whole numbers, numbers with a fraction, and
\* a number given as a string of digits.
MonthsValues ==
  {Undef} \cup {Num(n) : n \in -1..MaxMonths}
          \cup {Half(n) : n \in 0..(MaxMonths - 1)} \cup {Digits(MaxMonths)}
RevenueTrendInputs == [months : MonthsValues, group_by : {Undef, Str("customer")}]
LimitInputs == [limit : {Undef, Num(1), Num(-1)}]

\* Records as list() returns them: the order's date in the middle of a month
\* of the window or on the first of the current month (NaN for a date that
\* does not parse); the invoice's dates as days since the epoch.
TrendDates ==
  {DateString(k, 15) : k \in -MaxMonths..0} \cup {DateString(0, 1), NaN}
TrendOrders ==
  [customer_name : {Str("ACME")}, transaction_date : TrendDates, grand_total : {2}]
    \cup [customer_name : {Undef}, transaction_date : TrendDates, grand_total : {1}]
BreakdownOrders ==
  [customer_name : {Str("ACME"), Undef},
   status : {Undef, Str("Completed"), Str("On Hold")},
   grand_total : {1, 2}]
DueDates ==
  {Undef} \cup {Num(d - age) : d \in Epoch,
                               age \in {-1, 0, 30, 31, 60, 61, 90, 91, 99999, 100000}}
\* What the four list() calls of the funnel return: so many leads,
\* opportunities, quotations and orders; besides the small counts, two whose
\* quotient in percent lies halfway between two integers.
StageCounts == (0..MaxStage) \cup {23, 40}
FunnelInputs == [period : {Undef, Str("this_year")}]
Leads(n) == [k \in 1..n |-> [name |-> k]]
Opportunities(n) == [k \in 1..n |-> [name |-> k, opportunity_amount |-> 1]]
Transactions(n) == [k \in 1..n |-> [name |-> k, grand_total |-> 1]]
\* The lists of trees of n nodes in all: a first tree of k nodes, then a
\* list of n - k; a node without children carries no array or an empty one.
NodeNames == {"a", "b"}
NodeValues == {Undef, Num(1)}
RECURSIVE Forests(_)
Forests(n) ==
  IF n = 0 THEN {<<>>}
  ELSE UNION {
         {<<TreeNode(name, value, children)>> \o rest :
            name \in NodeNames, value \in NodeValues,
            children \in IF k = 1 THEN {Undef, Arr(<<>>)}
                          ELSE {Arr(f) : f \in Forests(k - 1)},
            rest \in Forests(n - k)} : k \in 1..n}
TreeData == UNION {Forests(n) : n \in 0..MaxNodes}
\* The parameters and the records of the radar: the items given or not, the
\* bins with stock above 0 for the choice of items, each item's bins (stock
\* may be negative where the remote system allows it), the order rows.
ItemCodes == {"A", "B"}
RadarInputs == [items : {Undef, Arr(<<"A">>), Arr(<<"A", "B">>)}]
TopBins == {<<>>, <<[item_code |-> "A"]>>, <<[item_code |-> "B"], [item_code |-> "A"]>>}
Bins ==
  {<<>>} \cup {<<[actual_qty |-> q[1], stock_value |-> q[2]]>> :
                 q \in {<<-1, 0>>, <<0, 0>>, <<2, 3>>}}
OrderRows ==
  [item_code : {"A"}, amount : {1, 2}] \cup [item_code : {"B", "Z"}, amount : {1}]
KpiOrders ==
  [transaction_date : {DateString(0, 15), DateString(-1, 15), DateString(0, 1),
                       DateString(-6, 15), NaN},
   grand_total : {3, 4}]
PipelineOrders ==
  [name : {"SO-1", "SO-2"},
   status : {Undef, Str("Draft"), Str("Completed"), Str("On Hold")},
   grand_total : {1, 2}]
AgingInvoices ==
  [customer_name : {Str("ACME"), Undef},
   due_date : DueDates,
   posting_date : {Num(d - 45) : d \in Epoch},
   outstanding_amount : {1}]

InitCharts ==
  /\ toolsOptions = NoOptions
  /\ tools = ToolsClient(toolsOptions)
  /\ mcpTools = NotBuilt
  /\ client = NoClient /\ timeoutMs = 0
  /\ store = [d \in Doctypes |-> Stored(0, 0)]
  /\ inv = [i \in Inv |-> IdleInvocation]
  /\ outs = [i \in Inv |-> <<>>]
  /\ calls = [i \in Inv |-> <<>>]
  /\ sent = [i \in Inv |-> <<>>]
  /\ rq = [i \in Inv |-> NoRequest]
  /\ cause = [i \in Inv |-> <<>>]
  /\ took = [i \in Inv |-> <<>>]
  /\ chart = NoChart

RevenueTrend ==
  /\ chart = NoChart
  /\ \E input \in RevenueTrendInputs, orders \in Lists(TrendOrders, MaxFetched),
        now \in TrendClocks :
       chart' = Charted("erpnext_revenue_trend", input, orders, now,
                        RevenueTrendHandler(input, orders, now))
  /\ UNCHANGED <<startup, tools, client, timeoutMs, store, inv, outs, calls, sent,
                 rq, cause, took>>

OrderBreakdown ==
  /\ chart = NoChart
  /\ \E input \in LimitInputs, orders \in Lists(BreakdownOrders, MaxFetched),
        now \in Clocks :
       chart' = Charted("erpnext_order_breakdown", input, orders, now,
                        OrderBreakdownHandler(input, orders))
  /\ UNCHANGED <<startup, tools, client, timeoutMs, store, inv, outs, calls, sent,
                 rq, cause, took>>

ArAging ==
  /\ chart = NoChart
  /\ \E input \in LimitInputs, invoices \in Lists(AgingInvoices, MaxFetched),
        today \in Clocks :
       chart' = Charted("erpnext_ar_aging", input, invoices, today,
                        ArAgingHandler(input, invoices, today))
  /\ UNCHANGED <<startup, tools, client, timeoutMs, store, inv, outs, calls, sent,
                 rq, cause, took>>

OrderPipeline ==
  /\ chart = NoChart
  /\ \E input \in LimitInputs, orders \in Lists(PipelineOrders, MaxFetched),
        now \in Clocks :
       chart' = Charted("erpnext_order_pipeline", input, orders, now,
                        OrderPipelineHandler(input, orders, now))
  /\ UNCHANGED <<startup, tools, client, timeoutMs, store, inv, outs, calls, sent,
                 rq, cause, took>>

SalesFunnel ==
  /\ chart = NoChart
  /\ \E input \in FunnelInputs, l, o, q, s \in StageCounts, now \in Clocks :
       chart' = Charted("erpnext_sales_funnel", input,
                        [leads |-> Leads(l), opps |-> Opportunities(o),
                         quots |-> Transactions(q), orders |-> Transactions(s)],
                        now,
                        SalesFunnelHandler(input, Leads(l), Opportunities(o),
                                           Transactions(q), Transactions(s)))
  /\ UNCHANGED <<startup, tools, client, timeoutMs, store, inv, outs, calls, sent,
                 rq, cause, took>>

KpiRevenue ==
  /\ chart = NoChart
  /\ \E allOrders \in Lists(KpiOrders, MaxFetched), now \in TrendClocks :
       chart' = Charted("erpnext_kpi_revenue", <<>>, allOrders, now,
                        KpiRevenueHandler(<<>>, allOrders, now))
  /\ UNCHANGED <<startup, tools, client, timeoutMs, store, inv, outs, calls, sent,
                 rq, cause, took>>

KpiOrdersCount ==
  /\ chart = NoChart
  /\ \E c, p \in StageCounts, now \in Clocks :
       chart' = Charted("erpnext_kpi_orders", <<>>,
                        [current |-> Transactions(c), previous |-> Transactions(p)],
                        now,
                        KpiOrdersHandler(<<>>, Transactions(c), Transactions(p)))
  /\ UNCHANGED <<startup, tools, client, timeoutMs, store, inv, outs, calls, sent,
                 rq, cause, took>>

ProductRadar ==
  /\ chart = NoChart
  /\ \E input \in RadarInputs, topBins \in TopBins, bins \in [ItemCodes -> Bins],
        soItems \in Lists(OrderRows, MaxFetched), now \in Clocks :
       /\ now.getTime \in Epoch
       \* The bins with stock are listed only when no item is given.
       /\ IsNullish(input.items) \/ topBins = <<>>
       /\ chart' = Charted("erpnext_product_radar", input,
                           [topBins |-> topBins, bins |-> bins, soItems |-> soItems],
                           now,
                           ProductRadarHandler(input, topBins, bins, soItems))
  /\ UNCHANGED <<startup, tools, client, timeoutMs, store, inv, outs, calls, sent,
                 rq, cause, took>>

\* The chart viewer flattens the treeData of a payload.
FlattenTree ==
  /\ chart = NoChart
  /\ \E treeData \in TreeData, now \in Clocks :
       /\ now.getTime \in Epoch
       /\ chart' = Charted("flattenTree", <<>>, treeData, now,
                           Returned(flattenTree(treeData)))
  /\ UNCHANGED <<startup, tools, client, timeoutMs, store, inv, outs, calls, sent,
                 rq, cause, took>>

\* The handlers whose records carry their dates as days since the epoch.
ChartHandler(tool, input, fetched, now) ==
  CASE tool = "erpnext_order_pipeline" -> OrderPipelineHandler(input, fetched, now)
    [] tool = "erpnext_order_breakdown" -> OrderBreakdownHandler(input, fetched)
    [] tool = "erpnext_ar_aging" -> ArAgingHandler(input, fetched, now)
DatedTools == {"erpnext_order_pipeline", "erpnext_order_breakdown", "erpnext_ar_aging"}

\* The same tool is executed again, later, with the same arguments, and
\* list() returns the same records.
RunAgain ==
  /\ chart.tool \in DatedTools
  /\ \E now \in Clocks :
       /\ now.getTime > chart.now.getTime
       /\ chart' = Charted(chart.tool, chart.input, chart.fetched, now,
                           ChartHandler(chart.tool, chart.input, chart.fetched, now))
  /\ UNCHANGED <<startup, tools, client, timeoutMs, store, inv, outs, calls, sent,
                 rq, cause, took>>

NextCharts ==
  \/ RevenueTrend \/ OrderBreakdown \/ ArAging \/ OrderPipeline \/ RunAgain
  \/ SalesFunnel \/ KpiRevenue \/ KpiOrdersCount \/ FlattenTree
  \/ ProductRadar

SpecCharts == InitCharts /\ [][NextCharts]_vars

----------------------------------------------------------------------------
(* Properties.                                                             *)

IsSubmitCall(c) == c.prim = "callMethod" /\ c.method = "frappe.client.submit"
IsSubmitRequest(r) ==
  r.method = "POST" /\ r.path = <<"api", "method", "frappe.client.submit">>

\* The document type an invocation is about.
TargetDoctype(i) ==
  CASE inv[i].tool = "erpnext_doc_submit" -> inv[i].input.doctype
    [] inv[i].tool = "erpnext_sales_order_submit" -> "Sales Order"
    [] inv[i].tool = "erpnext_sales_invoice_submit" -> "Sales Invoice"
    [] OTHER -> ""

KeysOf(v) == IF IsObj(v) THEN DOMAIN v.f ELSE {}
ClientSide(status) == status >= 400 /\ status <= 499

\* C1: in every invocation of a submit tool, a call of the remote submit
\* procedure comes directly after a get of the same (type, id) that completed
\* successfully in that invocation, and the document it sends is the record
\* that get returned with the type tag added: the same properties with the
\* same values, plus doctype.
C1_FetchThenForward ==
  \A i \in Inv : \A k \in 1..Len(calls[i]) :
    IsSubmitCall(calls[i][k]) =>
      /\ k > 1
      /\ IsSubmitRequest(sent[i][k])
      /\ LET g == calls[i][k - 1]
             got == outs[i][k - 1]
             d == Prop(sent[i][k].body, "doc")
         IN  /\ g.prim = "get"
             /\ g.doctype = TargetDoctype(i)
             /\ g.name = inv[i].input.name
             /\ got.ok
             /\ cause[i][k - 1].why = "response"
             /\ ResponseOk(cause[i][k - 1].resp)
             /\ IsObj(d)
             /\ DOMAIN d.f = KeysOf(got.val) \cup {"doctype"}
             /\ d.f.doctype = TargetDoctype(i)
             /\ \A f \in DOMAIN d.f \ {"doctype"} : d.f[f] = got.val.f[f]

\* A submit call is in progress and forwards a fetched record with its stamp.
C1_Witness ==
  \E i \in Inv :
    /\ Len(calls[i]) = 2 /\ IsSubmitCall(calls[i][2])
    /\ rq[i].phase = "fetching"
    /\ HasProp(outs[i][1].val, "modified")
    /\ HasProp(Prop(sent[i][2].body, "doc"), "modified")

IsConflict(resp) ==
  /\ resp.wire.kind = "json"
  /\ Prop(resp.wire.val, "exc_type") = Str("TimestampMismatchError")

\* The fetched record's stamp is no longer the stored one.
StaleSubmit(i) ==
  /\ Len(calls[i]) = 2 /\ IsSubmitCall(calls[i][2])
  /\ HasProp(outs[i][1].val, "modified")
  /\ Known(store, TargetDoctype(i), inv[i].input.name)
  /\ outs[i][1].val.f.modified # store[TargetDoctype(i)].modified

\* C2: when another writer modified the record after the fetch of a submit
\* handler completed and before its submit call is processed, the remote
\* rejects the submit with a 4xx conflict error and leaves the record as it
\* is; and when that rejection reaches the client, the invocation fails with
\* exactly that error: a FrappeAPIError with the response's status and the
\* response's body.
C2_ConflictPropagates ==
  \A i \in Inv :
    /\ (StaleSubmit(i) /\ rq[i].phase = "fetching" /\ rq[i].net = "sent") =>
         \A rs \in RejectStatuses :
           LET r == RemoteProcess(sent[i][2], store, rs) IN
           /\ IsConflict(r.resp) /\ ClientSide(r.resp.status)
           /\ r.store = store
    /\ (/\ inv[i].st = "done" /\ Len(cause[i]) = 2
        /\ cause[i][2].why = "response" /\ IsConflict(cause[i][2].resp)) =>
         /\ inv[i].result = <<outs[i][2]>>
         /\ ~inv[i].result[1].ok
         /\ inv[i].result[1].err.type = "FrappeAPIError"
         /\ inv[i].result[1].err.status = cause[i][2].resp.status
         /\ inv[i].result[1].err.body = cause[i][2].resp.wire.val
         /\ ClientSide(inv[i].result[1].err.status)

\* An invocation ended after the remote rejected its submit as stale.
C2_Witness ==
  \E i \in Inv :
    /\ inv[i].st = "done" /\ Len(cause[i]) = 2
    /\ cause[i][2].why = "response" /\ cause[i][2].handled
    /\ IsConflict(cause[i][2].resp)
    /\ StaleSubmit(i)
    /\ ~inv[i].result[1].ok

SubmitCalls(i) == {k \in 1..Len(calls[i]) : IsSubmitCall(calls[i][k])}
SubmitRequests(i) == {k \in 1..Len(sent[i]) : IsSubmitRequest(sent[i][k])}

\* C3: in one invocation of a submit tool the remote submit procedure is
\* called at most once, and at most one submit request is sent, whatever the
\* outcome of that call.
C3_SubmitAtMostOnce ==
  \A i \in Inv :
    /\ Cardinality(SubmitCalls(i)) <= 1
    /\ Cardinality(SubmitRequests(i)) <= 1

\* An invocation ended after its submit call failed.
C3_Witness ==
  \E i \in Inv :
    /\ inv[i].st = "done" /\ Len(outs[i]) = 2
    /\ IsSubmitCall(calls[i][2])
    /\ ~outs[i][2].ok
    /\ cause[i][2].why \in {"timer", "network"}

\* The typed tool for a document type, and the tool and input that do the
\* same job as invocation i through the other kind of tool.
TypedSubmitTool(doctype) ==
  IF doctype = "Sales Order" THEN "erpnext_sales_order_submit"
                             ELSE "erpnext_sales_invoice_submit"
CounterpartTool(i) ==
  IF inv[i].tool = "erpnext_doc_submit" THEN TypedSubmitTool(TargetDoctype(i))
                                        ELSE "erpnext_doc_submit"
CounterpartInput(i) ==
  IF inv[i].tool = "erpnext_doc_submit"
    THEN [doctype |-> "", name |-> inv[i].input.name]
    ELSE [doctype |-> TargetDoctype(i), name |-> inv[i].input.name]

\* C4: for the same document type and id and the same outcomes of the remote
\* calls, the generic submit tool and the typed submit tool for that type send
\* the same requests in the same order, and fail with the same errors: at
\* every point of an invocation, the requests it has sent are those its
\* counterpart sends after the same outcomes, and when it has ended its
\* counterpart ends the same way.
C4_GenericMatchesTyped ==
  \A i \in Inv :
    (/\ inv[i].tool \in SubmitTools /\ inv[i].st # "idle"
     /\ inv[i].input.name # "" /\ TargetDoctype(i) \in Doctypes) =>
      /\ \A k \in 1..Len(sent[i]) :
           LET e == Handler(CounterpartTool(i), CounterpartInput(i),
                            SubSeq(outs[i], 1, k - 1))
           IN  e.kind = "call" /\ PrimRequest(e) = sent[i][k]
      /\ inv[i].st = "done" =>
           LET e == Handler(CounterpartTool(i), CounterpartInput(i), outs[i])
           IN  IF inv[i].result[1].ok
                 THEN e.kind = "return"
                 ELSE e.kind = "throw" /\ e.err = inv[i].result[1].err
      /\ inv[i].st = "running" =>
           Handler(CounterpartTool(i), CounterpartInput(i), outs[i]).kind = "call"

\* A generic submit went through both calls and succeeded.
C4_Witness ==
  \E i \in Inv :
    /\ inv[i].tool = "erpnext_doc_submit" /\ inv[i].st = "done"
    /\ Len(sent[i]) = 2 /\ inv[i].result[1].ok
    /\ store[TargetDoctype(i)].docstatus = 1

FetchedSubmitted(i) ==
  /\ inv[i].tool \in SubmitTools
  /\ Len(outs[i]) >= 1 /\ outs[i][1].ok
  /\ HasProp(outs[i][1].val, "docstatus")
  /\ outs[i][1].val.f.docstatus = 1

\* C5: when a submit tool is invoked on a record that is already Submitted,
\* the record stays as it was (it is not submitted again), an invocation whose
\* submit request the remote processed never returns a result, and when the
\* remote's answer reaches the client the invocation ends in a thrown
\* FrappeAPIError with a 4xx status.
C5_NoResubmit ==
  \A i \in Inv :
    FetchedSubmitted(i) =>
      /\ store[TargetDoctype(i)] = Stored(1, outs[i][1].val.f.modified)
      /\ (inv[i].st = "done" /\ Len(cause[i]) >= 2 /\ cause[i][2].handled) =>
           /\ ~inv[i].result[1].ok
           /\ cause[i][2].why = "response" =>
                /\ inv[i].result[1].err.type = "FrappeAPIError"
                /\ ClientSide(inv[i].result[1].err.status)
      /\ inv[i].st = "done" => Len(cause[i]) >= 2

\* A submit on a Submitted record was processed by the remote and ended in a
\* thrown 4xx error.
C5_Witness ==
  \E i \in Inv :
    /\ FetchedSubmitted(i) /\ inv[i].st = "done"
    /\ Len(cause[i]) = 2 /\ cause[i][2].handled /\ cause[i][2].why = "response"
    /\ ~inv[i].result[1].ok
    /\ inv[i].result[1].err.type = "FrappeAPIError"
    /\ ClientSide(inv[i].result[1].err.status)

IsApiError(out) == ~out.ok /\ out.err.type = "FrappeAPIError"

\* C6: for every client request, the thrown error has status 408 exactly
\* when the client's own abort timer fired, status 0 when the transport failed
\* without a response, and the remote's status when a non-success response
\* arrived, so that the status tells the three causes apart.
C6_StatusTellsCause ==
  \A i \in Inv : \A k \in 1..Len(outs[i]) :
    IsApiError(outs[i][k]) =>
      /\ (outs[i][k].err.status = 408) <=> (cause[i][k].why = "timer")
      /\ (outs[i][k].err.status = 0) <=> (cause[i][k].why = "network")
      /\ cause[i][k].why = "response" =>
           outs[i][k].err.status = cause[i][k].resp.status

\* C7: every call of a client primitive settles no later than the configured
\* timeout (30 000 ms when none is configured) after its request was started:
\* no request in progress is older than timeoutMs.
C7_SettlesWithinTimeout ==
  \A i \in Inv :
    rq[i].phase \in {"fetching", "reading"} => rq[i].elapsed <= timeoutMs

\* The body of a response as the client received it: the parsed value of JSON
\* bytes, the text otherwise.
BodyAsReceived(resp) ==
  IF resp.wire.kind = "json" THEN resp.wire.val ELSE Str(resp.wire.s)

\* C8: whenever the remote answers with a non-success status, the call throws
\* a FrappeAPIError whose body is the response body as received, with every
\* field of it.
C8_BodyPreserved ==
  \A i \in Inv : \A k \in 1..Len(outs[i]) :
    (cause[i][k].why = "response" /\ ~ResponseOk(cause[i][k].resp)) =>
      /\ IsApiError(outs[i][k])
      /\ outs[i][k].err.status = cause[i][k].resp.status
      /\ outs[i][k].err.body = BodyAsReceived(cause[i][k].resp)

\* C9: each call of a client primitive sends exactly one HTTP request, the
\* one that primitive builds; a call that failed, for whatever reason, has
\* still sent one request only.
C9_OneRequestPerCall ==
  \A i \in Inv :
    /\ Len(sent[i]) = Len(calls[i])
    /\ \A k \in 1..Len(calls[i]) : sent[i][k] = PrimRequest(calls[i][k])
    /\ Len(outs[i]) = Len(calls[i]) - (IF rq[i].phase = "none" THEN 0 ELSE 1)

\* An invocation ended with two calls made, two requests sent, and the second
\* call failed by timeout.
C9_Witness ==
  \E i \in Inv :
    /\ inv[i].st = "done" /\ Len(calls[i]) = 2 /\ Len(sent[i]) = 2
    /\ IsApiError(outs[i][2]) /\ cause[i][2].why = "timer"

\* C10: every client primitive call that does not complete successfully
\* throws a FrappeAPIError with a numeric status: no failed call returns a
\* value, and no call throws an error of another type.
C10_TypedErrors ==
  \A i \in Inv : \A k \in 1..Len(outs[i]) :
    /\ ~outs[i][k].ok => outs[i][k].err.type = "FrappeAPIError"
    /\ (cause[i][k].why # "response" \/ ~ResponseOk(cause[i][k].resp)) =>
         ~outs[i][k].ok

FailedCalls(i) == {k \in 1..Len(outs[i]) : ~outs[i][k].ok}

\* C11: for every tool, when a client call made by its handler throws, the
\* invocation through the dispatcher ends at once and fails with that same
\* error, status and body included: the failed call is the handler's last, and
\* the invocation's result is the throw of the call's error, never a value.
C11_ClientErrorsPropagate ==
  \A i \in Inv : \A k \in FailedCalls(i) :
    /\ k = Len(outs[i])
    /\ k = Len(calls[i])
    /\ inv[i].st = "done"
    /\ inv[i].result = <<Thrown(outs[i][k].err)>>

\* A list invocation ended after the remote refused its request with a 403
\* and a JSON body.
C11_Witness ==
  \E i \in Inv :
    /\ inv[i].tool = "erpnext_doc_list" /\ inv[i].st = "done"
    /\ FailedCalls(i) = {1}
    /\ IsApiError(outs[i][1]) /\ outs[i][1].err.status = 403
    /\ IsObj(outs[i][1].err.body)
    /\ ~inv[i].result[1].ok

\* The invocation asked for a name the dispatcher has no tool for.
UnknownInvocation(i) == inv[i].st # "idle" /\ ~Registered(tools, inv[i].tool)

\* C12: execute(name, args) with a name that matches no registered tool
\* throws an error that names the requested tool and every registered tool,
\* and runs no handler: the invocation ends at once, with that error, having
\* made no client call and sent no request.
C12_UnknownToolNamesAll ==
  \A i \in Inv :
    UnknownInvocation(i) =>
      /\ inv[i].st = "done"
      /\ ~inv[i].result[1].ok
      /\ LET e == inv[i].result[1].err IN
         /\ DOMAIN e = {"type", "unknown", "available"}
         /\ e.unknown = inv[i].tool
         /\ \A k \in DOMAIN tools :
              \E j \in DOMAIN e.available : e.available[j] = tools[k].name
      /\ calls[i] = <<>> /\ sent[i] = <<>> /\ outs[i] = <<>>
      /\ rq[i].phase = "none"

\* A name of no bucket was asked of a dispatcher that holds tools.
C12_Witness ==
  \E i \in Inv :
    /\ UnknownInvocation(i)
    /\ inv[i].tool = "erpnext_doc_archive"
    /\ Len(tools) > 0
    /\ Len(inv[i].result[1].err.available) = Len(tools)

\* What request() makes of the way a call ended.
RequestOutcome(c) ==
  CASE c.why = "response" -> RequestAfterFetch(c.resp)
    [] c.why = "timer" -> RequestCatch("AbortError")
    [] c.why = "network" -> RequestCatch("TypeError")
    [] OTHER -> Thrown(RuntimeError("TypeError"))

\* Invocation i is what its tool does alone with the responses i received:
\* each request is the one the handler makes after the outcomes before it,
\* each outcome is what the client makes of the response to that request, and
\* the result is what the handler returns or throws after those outcomes.
RunsAsAlone(i) ==
  /\ \A k \in 1..Len(sent[i]) :
       LET e == Handler(inv[i].tool, inv[i].input, SubSeq(outs[i], 1, k - 1))
       IN  e.kind = "call" /\ sent[i][k] = PrimRequest(e)
  /\ \A k \in 1..Len(outs[i]) :
       outs[i][k] = PrimResult(calls[i][k].prim, RequestOutcome(cause[i][k]))
  /\ inv[i].st = "running" =>
       /\ Len(sent[i]) = Len(outs[i]) + 1
       /\ Handler(inv[i].tool, inv[i].input, outs[i]).kind = "call"
  /\ inv[i].st = "done" =>
       LET e == Handler(inv[i].tool, inv[i].input, outs[i])
       IN  /\ e.kind # "call"
           /\ Len(sent[i]) = Len(outs[i])
           /\ inv[i].result = <<IF e.kind = "return" THEN Returned(e.val)
                                                     ELSE Thrown(e.err)>>

\* Invocation i took the client singleton that another invocation had set.
ReadsOthersClient(i) ==
  /\ inv[i].st # "idle" /\ Registered(tools, inv[i].tool)
  /\ client.set /\ client.by \notin {0, i}

RECURSIVE SumOf(_)
SumOf(s) == IF s = <<>> THEN 0 ELSE Head(s) + SumOf(Tail(s))

\* Time invocation i has been waiting on the client so far.
Duration(i) ==
  SumOf(took[i]) + (IF rq[i].phase \in {"fetching", "reading"} THEN rq[i].elapsed ELSE 0)

\* Each request has a window of its own, counted from its own start: a call
\* ended by the timer took exactly timeoutMs, whatever the calls before it
\* took, and a request whose timer is pending is no older than timeoutMs.
OwnWindows(i) ==
  /\ \A k \in 1..Len(took[i]) : cause[i][k].why = "timer" => took[i][k] = timeoutMs
  /\ (rq[i].phase = "fetching" /\ rq[i].timer) => rq[i].elapsed <= timeoutMs

\* C14: in a submit-tool invocation the fetch request and the submit request
\* each get their own full timeout window, started when that request is sent,
\* and time spent in the fetch does not shorten the submit's window; so one
\* invocation lasts up to twice the configured timeout, and no longer.
C14_TwoFullWindows ==
  \A i \in Inv : OwnWindows(i) /\ Duration(i) <= 2 * timeoutMs

\* The windows alone: what holds of the claim.
C14_WindowsIndependent == \A i \in Inv : OwnWindows(i)

\* The fetch used its window to the end and the submit then timed out after a
\* full window of its own.
C14_Witness ==
  \E i \in Inv :
    /\ Len(took[i]) = 2 /\ IsSubmitCall(calls[i][2])
    /\ took[i][1] = timeoutMs /\ cause[i][1].why = "response"
    /\ cause[i][2].why = "timer" /\ took[i][2] = timeoutMs


\* The registered tools of a category.
OfCategory(ts, category) == {ts[k] : k \in {j \in DOMAIN ts : ts[j].category = category}}

\* The tool's schema has the field among its arguments and requires it.
Takes(tool, field) ==
  /\ field \in tool.inputSchema.properties
  /\ \E k \in DOMAIN tool.inputSchema.required : tool.inputSchema.required[k] = field

\* Every registered tool of the generic operations takes the document type:
\* its schema requires it, and invoked without it the tool throws naming it.
OperationsTakeDoctype ==
  /\ \A t \in OfCategory(tools, "operations") : Takes(t, "doctype")
  /\ \A i \in Inv :
       (/\ inv[i].st = "done"
        /\ \E t \in OfCategory(tools, "operations") : t.name = inv[i].tool
        /\ inv[i].input.doctype = "")
       => inv[i].result = <<Thrown(RequiredError(inv[i].tool, "doctype"))>>

IsMutating(r) == r.method \in {"POST", "PUT"}
IsResourceRequest(r) == r.path[2] = "resource"

\* C16 as stated: every request body the client sends for a mutating operation
\* (create, update, and the remote-procedure calls used for submit and cancel)
\* is a JSON object that carries the payload under a top-level `data` key.
C16_AllBodiesUnderData ==
  \A i \in Inv : \A k \in DOMAIN sent[i] :
    IsMutating(sent[i][k]) =>
      IsObj(sent[i][k].body) /\ "data" \in DOMAIN sent[i][k].body.f

\* C16: the bodies of create and update are JSON objects whose one top-level
\* key is `data`, holding the payload (for create, with the document type
\* stamped on it); the body of a remote-procedure call (submit, cancel) is the
\* JSON object of the call's arguments itself, with no `data` key; requests
\* that change nothing carry no body.
C16_ResourceBodiesUnderData ==
  \A i \in Inv : \A k \in DOMAIN sent[i] :
    LET r == sent[i][k]
        c == calls[i][k]
    IN  /\ (IsMutating(r) /\ IsResourceRequest(r)) =>
             /\ IsObj(r.body) /\ DOMAIN r.body.f = {"data"}
             /\ c.prim = "create" => r.body.f.data = WithDoctype(c.data, c.doctype)
             /\ c.prim = "update" => r.body.f.data = c.data
        /\ (IsMutating(r) /\ ~IsResourceRequest(r)) =>
             /\ c.prim = "callMethod"
             /\ IsObj(r.body) /\ "data" \notin DOMAIN r.body.f
             /\ r.body = JsonStringify(c.args)
        /\ ~IsMutating(r) => r.body = Undef

\* An update was sent with its fields under `data` and the remote applied it.
C16_Witness ==
  \E i \in Inv :
    /\ inv[i].st = "done" /\ inv[i].tool = "erpnext_doc_update"
    /\ inv[i].result[1].ok
    /\ Len(sent[i]) = 1 /\ sent[i][1].method = "PUT"
    /\ sent[i][1].body = Obj([data |-> SomeData])


\* The argument is absent from the input: a string argument left out is "",
\* any other is undefined.
Absent(input, fld) ==
  IF fld \in {"data", "items"} THEN input[fld] = Undef ELSE input[fld] = ""

\* Required fields of the tool that the input leaves out, in schema order.
AbsentRequired(tool, input) ==
  SelectSeq(tool.inputSchema.required, LAMBDA fld : Absent(input, fld))

\* The error's message contains the tool's name and the field's name.
ErrorNames(e, tool, fld) ==
  /\ e.type = "Error" /\ "tool" \in DOMAIN e /\ e.tool = tool
  /\ IF "field" \in DOMAIN e THEN e.field = fld ELSE fld \in e.fields

WireOf(wire, tool) ==
  /\ wire.name = tool.name
  /\ wire.description = tool.description
  /\ wire.inputSchema = tool.inputSchema
  /\ ("_meta" \in DOMAIN wire) = ("_meta" \in DOMAIN tool)
  /\ "_meta" \in DOMAIN tool => wire._meta = tool._meta
  /\ "handler" \notin DOMAIN wire
  /\ DOMAIN wire \subseteq {"name", "description", "inputSchema", "_meta"}

\* C18: for every registered tool, its wire-format entry has the same name,
\* description and input schema as the tool, carries the UI hint exactly when
\* the tool has one, and contains no handler; the projection returns one entry
\* per tool in registry order and changes nothing in the registry.
C18_WireFormatFaithful ==
  /\ [](mcpTools.built =>
          /\ Len(mcpTools.list) = Len(tools)
          /\ \A k \in DOMAIN tools : WireOf(mcpTools.list[k], tools[k]))
  /\ [][mcpTools' # mcpTools => tools' = tools]_vars

\* The list was built for a dispatcher of both categories, operations first:
\* ten entries, the list tool's with its UI hint, the others without.
C18_Witness ==
  /\ mcpTools.built
  /\ toolsOptions = Categories(<<"operations", "sales">>)
  /\ Len(mcpTools.list) = 10
  /\ "_meta" \in DOMAIN mcpTools.list[7]
  /\ "_meta" \notin DOMAIN mcpTools.list[8]


\* The categories a dispatcher was built with; the catalog's tools in them.
Listed == {toolsOptions.categories[k] : k \in DOMAIN toolsOptions.categories}
ToolsOfListed == {allTools[k] : k \in {j \in DOMAIN allTools : allTools[j].category \in Listed}}

\* The registry holds the tools of the listed categories and no other, and
\* a tool of an unlisted category is refused as unknown.
ListedCategoriesOnly ==
  toolsOptions.hasCategories =>
    /\ {tools[k] : k \in DOMAIN tools} = ToolsOfListed
    /\ \A i \in Inv :
         (/\ inv[i].st = "done"
          /\ \E k \in DOMAIN allTools :
               allTools[k].name = inv[i].tool /\ allTools[k].category \notin Listed)
         => /\ inv[i].result = <<Thrown(UnknownToolError(inv[i].tool, Names(tools)))>>
            /\ calls[i] = <<>>

\* C19: a dispatcher built with a category list registers exactly the tools of
\* the listed categories, each once; executing the name of a tool whose
\* category is not listed fails as an unknown tool.
C19_ListedCategoriesOnce ==
  /\ ListedCategoriesOnly
  /\ toolsOptions.hasCategories =>
       \A j, k \in DOMAIN tools : tools[j].name = tools[k].name => j = k


\* The tools that return a chart payload, with labels and datasets.
ChartTools ==
  {"erpnext_revenue_trend", "erpnext_order_breakdown", "erpnext_ar_aging",
   "erpnext_product_radar"}

\* In the payload every dataset has as many values as there are labels.
Aligned(payload) ==
  \A k \in DOMAIN payload.datasets :
    Len(payload.datasets[k].values) = Len(payload.labels)

\* C20: in every chart payload returned by any analytics tool, for any fetched
\* records and any parameters, each dataset's value array has exactly as many
\* entries as the label array.
C20_ValuesMatchLabels ==
  (chart.tool \in ChartTools /\ chart.result # <<>> /\ chart.result[1].ok)
  => Aligned(chart.result[1].val)

\* The same for parameters of the types the schemas declare: `months` absent
\* or a number.
AlignedForNumbers ==
  (/\ chart.tool \in ChartTools /\ chart.result # <<>> /\ chart.result[1].ok
   /\ chart.tool = "erpnext_revenue_trend" => chart.input.months.t # "string")
  => Aligned(chart.result[1].val)


\* The handler's run that the chart records returned a payload.
Paid == chart.result # <<>> /\ chart.result[1].ok

\* The buckets one record adds to, and whether the buckets of all the
\* records are the sums of what each record adds alone: pipeline columns by
\* status, receivables by customer and age range, revenue by month.
PipelineShare(order, status) ==
  LET columns == OrderPipelineHandler(chart.input, <<order>>, chart.now).val.columns
  IN  IF \E k \in DOMAIN columns : columns[k].status = status
        THEN LET c == columns[CHOOSE k \in DOMAIN columns : columns[k].status = status]
             IN  [count |-> Num(c.count), total |-> Num(c.total)]
        ELSE [count |-> Num(0), total |-> Num(0)]
AgingShare(invoice, customer, b) ==
  LET alone == ByCustomerBucket(<<invoice>>, chart.now, <<>>)
  IN  IF IndexOf(alone, customer) = 0 THEN Num(0)
      ELSE alone[IndexOf(alone, customer)].values[b]
TrendShare(order, m) ==
  MonthlyTotals(<<order>>, chart.now, chart.input.months,
                NewArray(chart.input.months).val)[m]

\* C21: in every aggregation, each fetched record contributes its count and
\* its amount to at most one bucket of a given dimension: what the buckets
\* hold is the sum over the records of what each adds alone, and alone a
\* record adds to at most one bucket.
C21_OneBucketPerRecord ==
  /\ (Paid /\ chart.tool = "erpnext_order_pipeline") =>
       LET columns == chart.result[1].val.columns
           orders == chart.fetched
           statuses == {STATUS_MAP[k].status : k \in DOMAIN STATUS_MAP}
       IN  /\ \A i \in DOMAIN orders :
                Cardinality({s \in statuses :
                               PipelineShare(orders[i], s).count # Num(0)}) <= 1
           /\ \A k \in DOMAIN columns :
                /\ Num(columns[k].count) =
                     Total([i \in DOMAIN orders |->
                              PipelineShare(orders[i], columns[k].status).count])
                /\ Num(columns[k].total) =
                     Total([i \in DOMAIN orders |->
                              PipelineShare(orders[i], columns[k].status).total])
           /\ \A s \in statuses :
                (\A k \in DOMAIN columns : columns[k].status # s) =>
                  \A i \in DOMAIN orders : PipelineShare(orders[i], s).count = Num(0)
  /\ (Paid /\ chart.tool = "erpnext_ar_aging") =>
       LET invoices == chart.fetched
           byCustomer == ByCustomerBucket(invoices, chart.now, <<>>)
       IN  /\ \A i \in DOMAIN invoices :
                Cardinality({cb \in {byCustomer[k].name : k \in DOMAIN byCustomer}
                                      \X DOMAIN BUCKETS :
                               AgingShare(invoices[i], cb[1], cb[2]) # Num(0)}) <= 1
           /\ \A k \in DOMAIN byCustomer : \A b \in DOMAIN BUCKETS :
                byCustomer[k].values[b] =
                  Total([i \in DOMAIN invoices |->
                           AgingShare(invoices[i], byCustomer[k].name, b)])
  /\ (/\ Paid /\ chart.tool = "erpnext_revenue_trend"
      /\ chart.input.months.t = "number" /\ IsNullish(chart.input.group_by)) =>
       LET orders == chart.fetched
           values == chart.result[1].val.datasets[1].values
       IN  /\ \A i \in DOMAIN orders :
                Cardinality({m \in DOMAIN values :
                               TrendShare(orders[i], m) # Num(0)}) <= 1
           /\ \A m \in DOMAIN values :
                values[m] = Total([i \in DOMAIN orders |-> TrendShare(orders[i], m)])

\* Two orders of one mapped status were fetched and the column counts them.
C21_Witness ==
  /\ Paid /\ chart.tool = "erpnext_order_pipeline"
  /\ Len(chart.fetched) = 2
  /\ \E k \in DOMAIN chart.result[1].val.columns :
       chart.result[1].val.columns[k].count = 2


\* C22: two invocations of the same analytics tool with identical arguments
\* against identical fetched records return identical payloads, whenever
\* they run and whatever was run before.
C22_SamePayload ==
  [][(/\ chart.tool # "" /\ chart'.tool = chart.tool
      /\ chart'.input = chart.input /\ chart'.fetched = chart.fetched)
     => chart'.result = chart.result]_vars

\* The same, for the one tool of the model that does not read the clock.
BreakdownSamePayload ==
  [][(/\ chart.tool = "erpnext_order_breakdown" /\ chart'.tool = chart.tool
      /\ chart'.input = chart.input /\ chart'.fetched = chart.fetched)
     => chart'.result = chart.result]_vars


\* Whole days from an invoice's reference date (its due date, else its
\* posting date) to the day of the run, 0 for a date in the future; the range
\* the claim gives that age.
DaysPast(invoice) ==
  LET ref == IF IsNullish(invoice.due_date) THEN invoice.posting_date
             ELSE invoice.due_date
  IN  IF chart.now.getTime > ref.n THEN chart.now.getTime - ref.n ELSE 0
RangeOf(days) ==
  IF days <= 30 THEN 1 ELSE IF days <= 60 THEN 2 ELSE IF days <= 90 THEN 3 ELSE 4

\* The ranges whose sum an invoice enters.
RangesOf(invoice) ==
  {b \in DOMAIN BUCKETS :
     AgingShare(invoice, Coalesce(invoice.customer_name, Str("Unknown")), b) # Num(0)}

\* C23: every outstanding invoice is classified into exactly one of four
\* aging ranges by whole days past its reference date (0-30, 31-60, 61-90,
\* anything older into the last); a reference date in the future counts as 0
\* days and lands in the first range.
C23_ExactlyOneRange ==
  (Paid /\ chart.tool = "erpnext_ar_aging") =>
    \A i \in DOMAIN chart.fetched :
      RangesOf(chart.fetched[i]) = {RangeOf(DaysPast(chart.fetched[i]))}

\* The same for the invoices no older than the last range's upper end.
OneRangeWithinBuckets ==
  (Paid /\ chart.tool = "erpnext_ar_aging") =>
    \A i \in DOMAIN chart.fetched :
      DaysPast(chart.fetched[i]) <= BUCKETS[Len(BUCKETS)].max =>
        RangesOf(chart.fetched[i]) = {RangeOf(DaysPast(chart.fetched[i]))}


\* The stage before stage k of a funnel payload; 100 * count / previous
\* rounded to the nearest integer, a half rounded up.
Stages == chart.result[1].val.stages
RoundedPercent(count, previous) == (200 * count + previous) \div (2 * previous)

\* C24: for every funnel stage after the first, conversionRate equals
\* round(100 * count / previous count) when the previous count is positive
\* and 0 when it is 0; it is never NaN or infinite.
C24_ConversionRate ==
  (Paid /\ chart.tool = "erpnext_sales_funnel") =>
    \A k \in 2..Len(Stages) :
      Stages[k].conversionRate =
        IF Stages[k - 1].count > 0
          THEN RoundedPercent(Stages[k].count, Stages[k - 1].count)
          ELSE 0

\* The rate is a finite integer, 0 after an empty stage, and otherwise an
\* integer nearest to 100 * count / previous.
ConversionRateNearest ==
  (Paid /\ chart.tool = "erpnext_sales_funnel") =>
    \A k \in 2..Len(Stages) :
      LET rate == Stages[k].conversionRate
          count == Stages[k].count
          previous == Stages[k - 1].count
          off == 100 * count - rate * previous
      IN  /\ rate \in Nat
          /\ previous = 0 => rate = 0
          /\ previous > 0 => 2 * off <= previous /\ -2 * off <= previous


\* The current and the prior value of a KPI card.
IsKpi == Paid /\ chart.tool \in {"erpnext_kpi_revenue", "erpnext_kpi_orders"}
Current == chart.result[1].val.value
Prior ==
  IF chart.tool = "erpnext_kpi_orders" THEN Len(chart.fetched.previous)
  ELSE chart.result[1].val.sparkline[5]

\* C25 as stated: a KPI card's delta is the percent change of the current
\* value against the prior value, and exactly 0 when the prior value is 0.
C25_DeltaIsPercentChange ==
  IsKpi =>
    /\ Prior = 0 => chart.result[1].val.delta = 0
    /\ Prior > 0 => chart.result[1].val.delta * Prior = 1000 * (Current - Prior)

\* C25: a KPI card's delta is the percent change of the current value
\* against the prior value rounded to one decimal place (a multiple of a
\* tenth nearest to it), and exactly 0 when the prior value is 0; it is never
\* NaN or infinite.
C25_DeltaRoundedToTenth ==
  IsKpi =>
    LET tenths == chart.result[1].val.delta
        off == 1000 * (Current - Prior) - tenths * Prior
    IN  /\ tenths \in Int
        /\ Prior = 0 => tenths = 0
        /\ Prior > 0 => 2 * off <= Prior /\ -2 * off <= Prior

\* A card whose percent change, a third above the prior value, is no
\* multiple of a tenth; a card whose prior value is 0 and whose current
\* value is not.
C25_Witness ==
  IsKpi /\ Prior = 3 /\ Current = 4 /\ chart.result[1].val.delta = 333
PriorZeroCard ==
  IsKpi /\ Prior = 0 /\ Current > 0 /\ chart.result[1].val.delta = 0


\* The status an order has, a draft when the record carries none; the
\* fetched orders of a status.
StatusOf(order) == IF IsNullish(order.status) THEN "Draft" ELSE order.status.s
OrdersOf(status) ==
  {i \in DOMAIN chart.fetched : StatusOf(chart.fetched[i]) = status}

TrendPaid ==
  /\ Paid /\ chart.tool = "erpnext_revenue_trend"
  /\ \/ IsNullish(chart.input.months)
     \/ /\ chart.input.months.t = "number" /\ ~IsHalf(chart.input.months)
        /\ chart.input.months.n >= 0
Window == IF IsNullish(chart.input.months) THEN DefaultMonths ELSE chart.input.months.n

\* The window has one label per calendar month, the last of them the current
\* month, and every dataset one value per label; in total mode a month in
\* which no fetched order is dated has the value 0.
WindowOfMonths ==
  LET payload == chart.result[1].val IN
  /\ Len(payload.labels) = Window
  /\ \A k \in DOMAIN payload.labels : payload.labels[k] = k - Window
  /\ \A d \in DOMAIN payload.datasets : Len(payload.datasets[d].values) = Window
  /\ IsNullish(chart.input.group_by) =>
       \A k \in DOMAIN payload.labels :
         (\A i \in DOMAIN chart.fetched :
            \/ chart.fetched[i].transaction_date.t = "NaN"
            \/ chart.fetched[i].transaction_date.month # payload.labels[k])
         => payload.datasets[1].values[k] = Num(0)

\* C27: for a lookback window of N months the revenue trend returns exactly
\* N labels, one per consecutive calendar month ending with the current
\* month, and N values in the same order; a month with no orders has value 0
\* and is not dropped.
C27_WindowOfMonths == TrendPaid => WindowOfMonths

\* The same where local time is not behind UTC.
WindowOfMonthsAheadOfUTC == (TrendPaid /\ ~chart.now.behindUTC) => WindowOfMonths


\* The leaves of a list of trees, depth first and left to right: the nodes
\* without children.
RECURSIVE LeavesOf(_)
LeavesOf(nodes) ==
  IF nodes = <<>> THEN <<>>
  ELSE (IF IsNullish(Head(nodes).children) \/ Head(nodes).children.a = <<>>
          THEN <<Head(nodes)>>
          ELSE LeavesOf(Head(nodes).children.a))
       \o LeavesOf(Tail(nodes))
EntriesOf(leaves) ==
  [k \in DOMAIN leaves |-> [name |-> leaves[k].name, value |-> leaves[k].value]]
Flattened == Paid /\ chart.tool = "flattenTree"

\* C28 as stated: flattening returns exactly one {name, value} entry for
\* each leaf, in depth-first left-to-right leaf order, and none for a node
\* that has children.
C28_OneEntryPerLeaf ==
  Flattened => chart.result[1].val = EntriesOf(LeavesOf(chart.fetched))

\* C28: flattening any finite tree terminates and returns exactly one
\* {name, value} entry for each leaf that carries a value, in depth-first
\* left-to-right leaf order; a leaf without value and a node that has
\* children contribute no entry, the latter even when it carries a value.
C28_OneEntryPerValuedLeaf ==
  Flattened =>
    chart.result[1].val =
      EntriesOf(SelectSeq(LeavesOf(chart.fetched), LAMBDA n : ~IsNullish(n.value)))

\* A parent that carries a value, with a leaf that carries one, followed by
\* a leaf without value: one entry, the first leaf's.
C28_Witness ==
  /\ Flattened
  /\ Len(chart.fetched) = 2
  /\ ~IsNullish(chart.fetched[1].value)
  /\ ~IsNullish(chart.fetched[1].children)
  /\ chart.fetched[1].children.a = <<TreeNode("b", Num(1), Undef)>>
  /\ chart.fetched[2] = TreeNode("a", Undef, Undef)
  /\ chart.result[1].val = <<[name |-> "b", value |-> Num(1)]>>


\* A radar of at least two items; the raw values of its entities, and the
\* largest raw value of a dimension among them.
IsRadar ==
  /\ Paid /\ chart.tool = "erpnext_product_radar"
  /\ chart.result[1].val.datasets # <<>>
RadarRaw ==
  Raw([k \in DOMAIN chart.result[1].val.datasets |->
         chart.result[1].val.datasets[k].label],
      chart.fetched.bins, chart.fetched.soItems)
Largest(di) ==
  LET values == {RadarRaw[c][di] : c \in DOMAIN RadarRaw}
  IN  CHOOSE v \in values : \A w \in values : w <= v

\* C29: for each radar dimension every compared entity's value is
\* round(100 * raw / largest raw value of that dimension among the compared
\* entities), so every value lies between 0 and 100 and the entity holding
\* the maximum shows 100.
C29_ScaledByMaximum ==
  IsRadar =>
    \A k \in DOMAIN chart.result[1].val.datasets :
      \A di \in DOMAIN chart.result[1].val.labels :
        LET value == chart.result[1].val.datasets[k].values[di]
            raw == RadarRaw[chart.result[1].val.datasets[k].label][di]
        IN  /\ Largest(di) > 0 => value = RoundedPercent(raw, Largest(di))
            /\ value >= 0 /\ value <= 100
            /\ raw = Largest(di) => value = 100

\* What holds: the raw value is scaled by the largest raw value or by 1,
\* whichever is larger; with no raw value below 0 every value lies between 0
\* and 100, and the holder of a maximum of 1 or more shows 100.
ScaledByFlooredMaximum ==
  IsRadar =>
    \A k \in DOMAIN chart.result[1].val.datasets :
      \A di \in DOMAIN chart.result[1].val.labels :
        LET value == chart.result[1].val.datasets[k].values[di]
            raw == RadarRaw[chart.result[1].val.datasets[k].label][di]
            floored == IF Largest(di) > 1 THEN Largest(di) ELSE 1
            off == 100 * raw - value * floored
        IN  /\ 2 * off <= floored /\ -2 * off <= floored
            /\ (\A c \in DOMAIN RadarRaw : RadarRaw[c][di] >= 0)
                 => value >= 0 /\ value <= 100
            /\ (raw = Largest(di) /\ raw >= 1) => value = 100


\* The fetch of a submit-tool invocation, its first client call, has failed.
FetchFailed(i) ==
  /\ inv[i].tool \in SubmitTools
  /\ Len(outs[i]) >= 1 /\ calls[i][1].prim = "get" /\ ~outs[i][1].ok

\* C30: if the fetch in a submit-tool invocation fails (not found, permission
\* denied, timeout, network failure), the remote submit procedure is never
\* called in that invocation and the caller receives the fetch's error: from
\* the failure on the get is the invocation's only call and only request,
\* and the invocation has ended with the throw of the get's error.
C30_FailedFetchNoSubmit ==
  \A i \in Inv :
    FetchFailed(i) =>
      /\ Len(calls[i]) = 1
      /\ \A k \in 1..Len(sent[i]) : ~IsSubmitRequest(sent[i][k])
      /\ inv[i].st = "done"
      /\ inv[i].result = <<Thrown(outs[i][1].err)>>

\* A submit invocation ended after its fetch was answered with 404; the
\* same for 403, for the timer and for a failure of the network.
FetchEndedWith(status, why) ==
  \E i \in Inv :
    /\ FetchFailed(i) /\ inv[i].st = "done"
    /\ IsApiError(outs[i][1]) /\ outs[i][1].err.status = status
    /\ cause[i][1].why = why
C30_Witness == FetchEndedWith(404, "response")
FetchDenied == FetchEndedWith(403, "response")
FetchTimedOut == FetchEndedWith(408, "timer")
FetchUnreachable == FetchEndedWith(0, "network")

====
